---------------------------- MODULE Spec2Model ----------------------------
(***************************************************************************)
(* Model of src/spherical-catan.js (class SphericalCatan): the construction *)
(* of the truncated-icosahedron board, the tile assignment, the mouse      *)
(* handlers, the build menu and the build operations.                      *)
(*                                                                         *)
(* Coordinates are fixed-point integers in units of 1/4000 (0.00025), so   *)
(* that the three length constants of the source are exact integers:       *)
(*   merge tolerance 0.001 = 4, EDGE_TOLERANCE 0.01 = 40,                  *)
(*   CORRECT_EDGE_LENGTH 1.7525 = 7010, radius 5 = 20000,                  *)
(* and a displacement below half the merge tolerance can be written.       *)
(* Floating-point rounding (double arithmetic, the Float32 position        *)
(* buffer) is far below this resolution and is not modelled; the length    *)
(* tests compare squared distances, which is exact on integers.            *)
(* A JS array is a sequence; JS index k is position k+1 of the sequence.   *)
(* Vertex indices, edge keys and index maps keep the 0-based JS values.    *)
(* A JS Set / Map is a duplicate-free sequence in insertion order.         *)
(* An edge key "a,b" is the pair <<a, b>>.  Ray distances are integers in  *)
(* units of 0.05, so that the margin 0.1 of the pick tests is 2.           *)
(***************************************************************************)
EXTENDS Integers, Sequences, FiniteSets, TLC

VARIABLES
  pc,               \* position of the construction
  cursor,           \* loop counter of the running loop (0-based)
  originalVertices, \* truncateIcosahedron: originalVertices
  newVertices,      \* truncateIcosahedron: newVertices (raw points)
  newFaces,         \* truncateIcosahedron: newFaces / this.faces
  mergedVertices,   \* mergeCloseVertices: mergedVertices
  vertexMap,        \* mergeCloseVertices: vertexMap (sequence, index i at i+1)
  allEdges,         \* truncateIcosahedron: allEdges
  sharedEdges,      \* truncateIcosahedron: sharedEdges
  pentagonEdges,    \* truncateIcosahedron: pentagonEdges
  processedEdges,   \* truncateIcosahedron: processedEdges
  pentagonCount,    \* truncateIcosahedron: pentagonCount
  lastAttempt,      \* the latest start-edge attempt: edge, walk, outcome
  edgeObjects,      \* addEdgeVisualization: this.edgeObjects (userData v1,v2)
  polyIn,           \* createPolygonIndices: argument of the latest call
  polyOut,          \* createPolygonIndices: result of the latest call
  rerun,            \* a second call of mergeCloseVertices on a displaced list
  shuffling,        \* shuffle: array, currentIndex, and the value returned
  allResources,     \* addFaceVisualization: allResources after the shuffle
  diceNumbers,      \* addFaceVisualization: diceNumbers after the shuffle
  tileCount,        \* addFaceVisualization: tileCount
  diceIndex,        \* addFaceVisualization: diceIndex
  faceObjects,      \* addFaceVisualization: this.faceObjects (userData)
  vertexObjects,    \* addVertexVisualization: this.vertexObjects (userData)
  pointer,          \* setupEventListeners: what the ray through the mouse hits
  picked,           \* the branch taken by the latest mouse handler
  selected,         \* setupEventListeners: selectedFace, selectedEdge, selectedVertex
  menu,             \* this.uiContainer: display, and the call of its build button
  roads,            \* this.buildings.roads (keys)
  settlements,      \* this.buildings.settlements (keys)
  cities,           \* this.buildings.cities (keys)
  resources         \* this.currentPlayer.resources

\* the variables of the construction of the mesh
meshVars == <<pc, cursor, originalVertices, newVertices, newFaces, mergedVertices,
              vertexMap, allEdges, sharedEdges, pentagonEdges, processedEdges,
              pentagonCount, lastAttempt, edgeObjects, polyIn, polyOut>>

\* the variables of the tile assignment
tileVars == <<allResources, diceNumbers, tileCount, diceIndex, faceObjects>>

\* the variables of the mouse handlers and of the build menu
uiVars == <<vertexObjects, pointer, picked, selected, menu>>

\* the variables of the buildings and of the player
gameVars == <<roads, settlements, cities, resources>>

\* the variables written after addEdgeVisualization
laterVars == <<rerun, shuffling, tileVars, uiVars, gameVars>>

vars == <<meshVars, laterVars>>

---------------------------------------------------------------------------
(* Sequence helpers *)

At(s, k) == s[k + 1]

Range(s) == {s[k] : k \in 1..Len(s)}

Includes(s, x) == \E k \in 1..Len(s) : s[k] = x

Min2(a, b) == IF a < b THEN a ELSE b

Max2(a, b) == IF a < b THEN b ELSE a

---------------------------------------------------------------------------
(* Geometry constants *)

\* this.CORRECT_EDGE_LENGTH = 1.7525
CORRECT_EDGE_LENGTH == 7010

\* this.EDGE_TOLERANCE = 0.01
EDGE_TOLERANCE == 40

\* mergeCloseVertices(vertices, tolerance = 0.001)
MergeTolerance == 4

\* truncatePoint(.., .., 0.33333): the ratio as a fraction of 100000
TruncationRatioNum == 33333

TruncationRatioDen == 100000

\* IcosahedronGeometry(radius = 5): |(1, t, 0)| scaled to the radius,
\* 5/sqrt(1+t^2) = 2.628656 and 5t/sqrt(1+t^2) = 4.253254, t = (1+sqrt 5)/2
IcoA == 10515

IcoB == 17013

\* The 12 vertices of the icosahedron (three.js IcosahedronGeometry)
IcoVertices ==
  << <<-IcoA, IcoB, 0>>, <<IcoA, IcoB, 0>>, <<-IcoA, -IcoB, 0>>, <<IcoA, -IcoB, 0>>,
     <<0, -IcoA, IcoB>>, <<0, IcoA, IcoB>>, <<0, -IcoA, -IcoB>>, <<0, IcoA, -IcoB>>,
     <<IcoB, 0, -IcoA>>, <<IcoB, 0, IcoA>>, <<-IcoB, 0, -IcoA>>, <<-IcoB, 0, IcoA>> >>

\* The 20 triangles of the icosahedron (three.js IcosahedronGeometry)
IcoIndices ==
  << <<0, 11, 5>>, <<0, 5, 1>>, <<0, 1, 7>>, <<0, 7, 10>>, <<0, 10, 11>>,
     <<1, 5, 9>>, <<5, 11, 4>>, <<11, 10, 2>>, <<10, 7, 6>>, <<7, 1, 8>>,
     <<3, 9, 4>>, <<3, 4, 2>>, <<3, 2, 6>>, <<3, 6, 8>>, <<3, 8, 9>>,
     <<4, 9, 5>>, <<2, 4, 11>>, <<6, 2, 10>>, <<8, 6, 7>>, <<9, 8, 1>> >>

\* geometry.attributes.position of the non-indexed geometry: three
\* positions per triangle, 60 in all (createBoard / truncateIcosahedron)
IcoPositions ==
  [k \in 1..(3 * Len(IcoIndices)) |->
     At(IcoVertices, IcoIndices[((k - 1) \div 3) + 1][((k - 1) % 3) + 1])]

---------------------------------------------------------------------------
(* Vector3 operations used by the construction *)

\* Vector3.distanceTo, squared
DistSq(p, q) ==
  (p[1] - q[1]) * (p[1] - q[1]) + (p[2] - q[2]) * (p[2] - q[2])
    + (p[3] - q[3]) * (p[3] - q[3])

\* CloserThan with <= in place of <
CloserThanOrAt(p, q, tolerance) == DistSq(p, q) <= tolerance * tolerance

\* v1.distanceTo(v2) < tolerance
CloserThan(p, q, tolerance) == DistSq(p, q) < tolerance * tolerance

\* Math.abs(distance - this.CORRECT_EDGE_LENGTH) < TOLERANCE
IsBond(p, q) ==
  /\ (CORRECT_EDGE_LENGTH - EDGE_TOLERANCE) * (CORRECT_EDGE_LENGTH - EDGE_TOLERANCE)
       < DistSq(p, q)
  /\ DistSq(p, q)
       < (CORRECT_EDGE_LENGTH + EDGE_TOLERANCE) * (CORRECT_EDGE_LENGTH + EDGE_TOLERANCE)

\* ScaleCoord with the default ratio 0.33 of truncatePoint
ScaleCoordDefault(c) == (c * 33 + 50) \div 100

\* one coordinate of direction.normalize().multiplyScalar(distance * ratio),
\* rounded to the nearest unit
ScaleCoord(c) == (c * TruncationRatioNum + (TruncationRatioDen \div 2)) \div TruncationRatioDen

\* truncatePoint(v1, v2, 0.33333)
truncatePoint(v1, v2) ==
  << v1[1] + ScaleCoord(v2[1] - v1[1]),
     v1[2] + ScaleCoord(v2[2] - v1[2]),
     v1[3] + ScaleCoord(v2[3] - v1[3]) >>

---------------------------------------------------------------------------
(* createPolygonIndices *)

\* the loop: pushes vertices[0], vertices[i], vertices[i+1] for i = 1..n-2
RECURSIVE FanLoop(_, _)
FanLoop(vertices, i) ==
  IF i < Len(vertices) - 1
    THEN <<At(vertices, 0), At(vertices, i), At(vertices, i + 1)>>
           \o FanLoop(vertices, i + 1)
    ELSE << >>

\* the whole function: the loop, then the closing triangle; the result is
\* the flat index list, three entries per triangle
createPolygonIndices(vertices) ==
  FanLoop(vertices, 1)
    \o <<At(vertices, 0), At(vertices, Len(vertices) - 1), At(vertices, 1)>>

---------------------------------------------------------------------------
(* mergeCloseVertices: one iteration of the outer loop *)

\* FirstMatch comparing with the latest merged vertex only
FirstMatchLastOnly(v1, merged, tolerance, j) ==
  IF Len(merged) > 0 /\ CloserThan(v1, merged[Len(merged)], tolerance)
    THEN Len(merged) - 1
    ELSE -1

\* FirstMatch without the break: the last match wins
FirstMatchNoBreak(v1, merged, tolerance, j) ==
  IF \E k \in 0..(Len(merged) - 1) : CloserThan(v1, At(merged, k), tolerance)
    THEN CHOOSE k \in 0..(Len(merged) - 1) :
           /\ CloserThan(v1, At(merged, k), tolerance)
           /\ \A m \in 0..(Len(merged) - 1) :
                CloserThan(v1, At(merged, m), tolerance) => m <= k
    ELSE -1

\* the inner loop: the first j with v1.distanceTo(mergedVertices[j]) <
\* tolerance, or -1 when foundMatch stays false
RECURSIVE FirstMatch(_, _, _, _)
FirstMatch(v1, merged, tolerance, j) ==
  IF j >= Len(merged) THEN -1
  ELSE IF CloserThan(v1, At(merged, j), tolerance) THEN j
  ELSE FirstMatch(v1, merged, tolerance, j + 1)

\* the merged list after the iteration for point v1
MergeVertices(v1, merged, tolerance) ==
  IF FirstMatch(v1, merged, tolerance, 0) >= 0 THEN merged ELSE Append(merged, v1)

\* the value stored by vertexMap.set(i, ..) in the iteration for point v1
MergeIndex(v1, merged, tolerance) ==
  IF FirstMatch(v1, merged, tolerance, 0) >= 0
    THEN FirstMatch(v1, merged, tolerance, 0)
    ELSE Len(merged)

---------------------------------------------------------------------------
(* truncateIcosahedron: helpers *)

\* `${Math.min(i, j)},${Math.max(i, j)}`
EdgeKey(i, j) == <<Min2(i, j), Max2(i, j)>>

\* getOtherVertex(edge, vertex)
getOtherVertex(edge, vertex) == IF edge[1] = vertex THEN edge[2] ELSE edge[1]

\* hexagonVertices with the third and fourth point exchanged
hexagonVerticesCrossed(v1, v2, v3) ==
  << truncatePoint(v1, v2), truncatePoint(v2, v1), truncatePoint(v3, v2),
     truncatePoint(v2, v3), truncatePoint(v3, v1), truncatePoint(v1, v3) >>

\* hexagonVertices starting each side at its far end
hexagonVerticesRotated(v1, v2, v3) ==
  << truncatePoint(v2, v1), truncatePoint(v1, v2), truncatePoint(v3, v2),
     truncatePoint(v2, v3), truncatePoint(v1, v3), truncatePoint(v3, v1) >>

\* the six truncation points of the triangle (v1, v2, v3)
hexagonVertices(v1, v2, v3) ==
  << truncatePoint(v1, v2), truncatePoint(v2, v1), truncatePoint(v2, v3),
     truncatePoint(v3, v2), truncatePoint(v3, v1), truncatePoint(v1, v3) >>

\* the inner loop over j = i+1 .. n-1 of the bond filter: the keys of the
\* pairs (i, j) at the bond length, in order of j
RECURSIVE BondsFrom(_, _, _)
BondsFrom(verts, i, j) ==
  IF j >= Len(verts) THEN << >>
  ELSE (IF IsBond(At(verts, i), At(verts, j)) THEN <<EdgeKey(i, j)>> ELSE << >>)
         \o BondsFrom(verts, i, j + 1)

\* Set.add of each key of a list: appends the keys not yet present
RECURSIVE AddAll(_, _)
AddAll(set, keys) ==
  IF keys = << >> THEN set
  ELSE AddAll(IF Includes(set, Head(keys)) THEN set ELSE Append(set, Head(keys)),
              Tail(keys))

\* SharedCount testing the first endpoint twice
SharedCountFirstEnd(edge, faces) ==
  Cardinality({k \in 1..Len(faces) :
                 /\ faces[k].type = "hexagon"
                 /\ Includes(faces[k].vertices, edge[1])
                 /\ Includes(faces[k].vertices, edge[1])})

\* sharedCount: the number of hexagons whose vertices include both ends
SharedCount(edge, faces) ==
  Cardinality({k \in 1..Len(faces) :
                 /\ faces[k].type = "hexagon"
                 /\ Includes(faces[k].vertices, edge[1])
                 /\ Includes(faces[k].vertices, edge[2])})

\* vertexEdges.get(v): the pentagon edges touching v, in insertion order
VertexEdges(pe, v) == SelectSeq(pe, LAMBDA e : e[1] = v \/ e[2] = v)

\* no edge (null)
NoEdge == << >>

\* FirstFree without the test !cycle.includes(edge)
RECURSIVE FirstFreeIgnoringCycle(_, _, _)
FirstFreeIgnoringCycle(connected, processed, cycle) ==
  IF connected = << >> THEN NoEdge
  ELSE IF ~Includes(processed, Head(connected)) THEN Head(connected)
  ELSE FirstFreeIgnoringCycle(Tail(connected), processed, cycle)

\* FirstFree without the test !processedEdges.has(edge)
RECURSIVE FirstFreeIgnoringProcessed(_, _, _)
FirstFreeIgnoringProcessed(connected, processed, cycle) ==
  IF connected = << >> THEN NoEdge
  ELSE IF ~Includes(cycle, Head(connected)) THEN Head(connected)
  ELSE FirstFreeIgnoringProcessed(Tail(connected), processed, cycle)

\* the for-loop choosing nextEdge among connectedEdges
RECURSIVE FirstFree(_, _, _)
FirstFree(connected, processed, cycle) ==
  IF connected = << >> THEN NoEdge
  ELSE IF ~Includes(processed, Head(connected)) /\ ~Includes(cycle, Head(connected))
    THEN Head(connected)
  ELSE FirstFree(Tail(connected), processed, cycle)

\* WalkContinues stopping one edge early
WalkContinuesShort(cycle) == Len(cycle) < 4

\* WalkContinues allowing one edge more
WalkContinuesLong(cycle) == Len(cycle) < 6

\* the loop guard of the walk: while (cycle.length < 5)
WalkContinues(cycle) == Len(cycle) < 5

\* the while loop of one attempt: the final cycle and foundCycle
RECURSIVE WalkLoop(_, _, _, _, _)
WalkLoop(pe, processed, startV1, cycle, currentVertex) ==
  IF ~WalkContinues(cycle) THEN [cycle |-> cycle, foundCycle |-> FALSE]
  ELSE LET nextEdge == FirstFree(VertexEdges(pe, currentVertex), processed, cycle)
       IN IF nextEdge = NoEdge THEN [cycle |-> cycle, foundCycle |-> FALSE]
          ELSE IF getOtherVertex(nextEdge, currentVertex) = startV1
            THEN [cycle |-> Append(cycle, nextEdge), foundCycle |-> TRUE]
          ELSE WalkLoop(pe, processed, startV1, Append(cycle, nextEdge),
                        getOtherVertex(nextEdge, currentVertex))

\* IsPentagon without the length test
IsPentagonAnyLength(walk) == walk.foundCycle

\* if (foundCycle && cycle.length === 5)
IsPentagon(walk) == walk.foundCycle /\ Len(walk.cycle) = 5

\* FaceVertices pushing the far end of every second edge first
RECURSIVE FaceVerticesZigzag(_, _)
FaceVerticesZigzag(cycle, currentVertex) ==
  IF cycle = << >> THEN << >>
  ELSE IF Len(cycle) >= 3
    THEN <<currentVertex,
           getOtherVertex(cycle[2], getOtherVertex(cycle[1], currentVertex)),
           getOtherVertex(cycle[1], currentVertex)>>
           \o FaceVerticesZigzag(
                Tail(Tail(Tail(cycle))),
                getOtherVertex(cycle[3],
                  getOtherVertex(cycle[2], getOtherVertex(cycle[1], currentVertex))))
  ELSE <<currentVertex>>
         \o FaceVerticesZigzag(Tail(cycle), getOtherVertex(Head(cycle), currentVertex))

\* FaceVertices pushing the first endpoint of every edge of the cycle
FaceVerticesEdgeStarts(cycle, currentVertex) ==
  [k \in 1..Len(cycle) |-> cycle[k][1]]

\* the vertices pushed while following the cycle from currentVertex
RECURSIVE FaceVertices(_, _)
FaceVertices(cycle, currentVertex) ==
  IF cycle = << >> THEN << >>
  ELSE <<currentVertex>>
         \o FaceVertices(Tail(cycle), getOtherVertex(Head(cycle), currentVertex))

\* a face object
Face(type, vertices) ==
  [type |-> type, vertices |-> vertices, indices |-> createPolygonIndices(vertices)]

---------------------------------------------------------------------------
(* The state of the constructor before init() *)

\* no hit of the ray (an empty intersection list)
NoHit == [index |-> -1, distance |-> 0]

\* this.currentPlayer.resources
InitialResources == [wood |-> 100, brick |-> 100, wheat |-> 100, sheep |-> 100, ore |-> 100]

\* no second call of mergeCloseVertices is under way
NoRerun == [base |-> << >>, moved |-> << >>, index |-> 0, baseCount |-> -1]

\* no call of shuffle is under way
NoShuffle == [given |-> << >>, array |-> << >>, currentIndex |-> 0,
              iterations |-> 0, result |-> << >>]

\* the fields set by the constructor, and the closure variables of
\* setupEventListeners, before any of them is written
InitFields ==
  /\ allResources = << >>
  /\ diceNumbers = << >>
  /\ tileCount = 0
  /\ diceIndex = 0
  /\ faceObjects = << >>
  /\ vertexObjects = << >>
  /\ pointer = [face |-> NoHit, edge |-> NoHit, vertex |-> NoHit]
  /\ picked = [event |-> "none", kind |-> "none", index |-> -1]
  /\ selected = [face |-> -1, edge |-> -1, vertex |-> -1]
  /\ menu = [display |-> "none", call |-> "none", arg |-> -1]
  /\ roads = << >>
  /\ settlements = << >>
  /\ cities = << >>
  /\ resources = InitialResources

\* the same, with no second call of mergeCloseVertices and no call of
\* shuffle under way
InitLater ==
  /\ rerun = NoRerun
  /\ shuffling = NoShuffle
  /\ InitFields

---------------------------------------------------------------------------
(* The construction, one loop iteration per step *)

\* the state of `new SphericalCatan` when truncateIcosahedron starts
Init ==
  /\ pc = "hexagons"
  /\ cursor = 0
  /\ originalVertices = IcoPositions
  /\ newVertices = << >>
  /\ newFaces = << >>
  /\ mergedVertices = << >>
  /\ vertexMap = << >>
  /\ allEdges = << >>
  /\ sharedEdges = << >>
  /\ pentagonEdges = << >>
  /\ processedEdges = << >>
  /\ pentagonCount = 0
  /\ lastAttempt = [startEdge |-> NoEdge, cycle |-> << >>, foundCycle |-> FALSE]
  /\ edgeObjects = << >>
  /\ polyIn = << >>
  /\ polyOut = << >>
  /\ InitLater

\* first pass: the hexagon of original face number `cursor`, which is
\* [3*cursor, 3*cursor+1, 3*cursor+2]
HexagonStep ==
  /\ pc = "hexagons"
  /\ 3 * cursor < Len(originalVertices)
  /\ LET pts == hexagonVertices(At(originalVertices, 3 * cursor),
                                At(originalVertices, 3 * cursor + 1),
                                At(originalVertices, 3 * cursor + 2))
         hexagonIndices == [k \in 1..6 |-> Len(newVertices) + k - 1]
     IN /\ newVertices' = newVertices \o pts
        /\ newFaces' = Append(newFaces, Face("hexagon", hexagonIndices))
        /\ polyIn' = hexagonIndices
        /\ polyOut' = createPolygonIndices(hexagonIndices)
  /\ cursor' = cursor + 1
  /\ pc' = IF 3 * (cursor + 1) < Len(originalVertices) THEN "hexagons" ELSE "merge"
  /\ UNCHANGED laterVars
  /\ UNCHANGED <<originalVertices, mergedVertices, vertexMap, allEdges, sharedEdges,
                 pentagonEdges, processedEdges, pentagonCount, lastAttempt,
                 edgeObjects>>

\* the call of mergeCloseVertices(newVertices)
MergeStart ==
  /\ pc = "merge"
  /\ pc' = "merging"
  /\ cursor' = 0
  /\ mergedVertices' = << >>
  /\ vertexMap' = << >>
  /\ UNCHANGED laterVars
  /\ UNCHANGED <<originalVertices, newVertices, newFaces, allEdges, sharedEdges,
                 pentagonEdges, processedEdges, pentagonCount, lastAttempt,
                 edgeObjects, polyIn, polyOut>>

\* mergeCloseVertices: the iteration i = cursor of the outer loop
MergeStep ==
  /\ pc = "merging"
  /\ cursor < Len(newVertices)
  /\ mergedVertices' = MergeVertices(At(newVertices, cursor), mergedVertices, MergeTolerance)
  /\ vertexMap' = Append(vertexMap,
                         MergeIndex(At(newVertices, cursor), mergedVertices, MergeTolerance))
  /\ cursor' = cursor + 1
  /\ UNCHANGED laterVars
  /\ UNCHANGED <<pc, originalVertices, newVertices, newFaces, allEdges, sharedEdges,
                 pentagonEdges, processedEdges, pentagonCount, lastAttempt,
                 edgeObjects, polyIn, polyOut>>

\* mergeCloseVertices returns; newFaces.forEach rewrites every face through
\* vertexMap and recomputes its indices
RewriteFaces ==
  /\ pc = "merging"
  /\ cursor >= Len(newVertices)
  /\ newFaces' = [k \in 1..Len(newFaces) |->
                    Face(newFaces[k].type,
                         [m \in 1..Len(newFaces[k].vertices) |->
                            At(vertexMap, newFaces[k].vertices[m])])]
  /\ pc' = "allEdges"
  /\ cursor' = 0
  /\ UNCHANGED laterVars
  /\ UNCHANGED <<originalVertices, newVertices, mergedVertices, vertexMap, allEdges,
                 sharedEdges, pentagonEdges, processedEdges, pentagonCount,
                 lastAttempt, edgeObjects, polyIn, polyOut>>

\* the bond filter over mergedVertices: the iteration i = cursor
AllEdgesStep ==
  /\ pc = "allEdges"
  /\ cursor < Len(mergedVertices)
  /\ allEdges' = AddAll(allEdges, BondsFrom(mergedVertices, cursor, cursor + 1))
  /\ cursor' = cursor + 1
  /\ UNCHANGED laterVars
  /\ UNCHANGED <<pc, originalVertices, newVertices, newFaces, mergedVertices,
                 vertexMap, sharedEdges, pentagonEdges, processedEdges,
                 pentagonCount, lastAttempt, edgeObjects, polyIn, polyOut>>

\* the bond filter is finished
AllEdgesDone ==
  /\ pc = "allEdges"
  /\ cursor >= Len(mergedVertices)
  /\ pc' = "shared"
  /\ cursor' = 0
  /\ UNCHANGED laterVars
  /\ UNCHANGED <<originalVertices, newVertices, newFaces, mergedVertices, vertexMap,
                 allEdges, sharedEdges, pentagonEdges, processedEdges,
                 pentagonCount, lastAttempt, edgeObjects, polyIn, polyOut>>

\* shared-edge classification: the iteration for edge number `cursor`
SharedStep ==
  /\ pc = "shared"
  /\ cursor < Len(allEdges)
  /\ sharedEdges' = IF SharedCount(At(allEdges, cursor), newFaces) = 2
                      THEN AddAll(sharedEdges, <<At(allEdges, cursor)>>)
                      ELSE sharedEdges
  /\ cursor' = cursor + 1
  /\ UNCHANGED laterVars
  /\ UNCHANGED <<pc, originalVertices, newVertices, newFaces, mergedVertices,
                 vertexMap, allEdges, pentagonEdges, processedEdges,
                 pentagonCount, lastAttempt, edgeObjects, polyIn, polyOut>>

\* pentagonEdges = allEdges without sharedEdges; processedEdges = new Set()
PentagonEdgesStep ==
  /\ pc = "shared"
  /\ cursor >= Len(allEdges)
  /\ pentagonEdges' = SelectSeq(allEdges, LAMBDA e : ~Includes(sharedEdges, e))
  /\ processedEdges' = << >>
  /\ pentagonCount' = 0
  /\ pc' = "pentagons"
  /\ cursor' = 0
  /\ UNCHANGED laterVars
  /\ UNCHANGED <<originalVertices, newVertices, newFaces, mergedVertices, vertexMap,
                 allEdges, sharedEdges, lastAttempt, edgeObjects, polyIn, polyOut>>

\* cycle extraction: the iteration for start edge number `cursor` when the
\* edge is already processed (continue)
PentagonSkip ==
  /\ pc = "pentagons"
  /\ cursor < Len(pentagonEdges)
  /\ Includes(processedEdges, At(pentagonEdges, cursor))
  /\ cursor' = cursor + 1
  /\ UNCHANGED laterVars
  /\ UNCHANGED <<pc, originalVertices, newVertices, newFaces, mergedVertices,
                 vertexMap, allEdges, sharedEdges, pentagonEdges, processedEdges,
                 pentagonCount, lastAttempt, edgeObjects, polyIn, polyOut>>

\* cycle extraction: the iteration for start edge number `cursor`: the walk
\* and, when it closed with 5 edges, the new pentagon
PentagonStep ==
  /\ pc = "pentagons"
  /\ cursor < Len(pentagonEdges)
  /\ ~Includes(processedEdges, At(pentagonEdges, cursor))
  /\ LET startEdge == At(pentagonEdges, cursor)
         walk == WalkLoop(pentagonEdges, processedEdges, startEdge[1],
                          <<startEdge>>, startEdge[2])
         faceVertices == FaceVertices(walk.cycle, startEdge[1])
     IN /\ lastAttempt' = [startEdge |-> startEdge, cycle |-> walk.cycle,
                           foundCycle |-> walk.foundCycle]
        /\ IF IsPentagon(walk)
             THEN /\ pentagonCount' = pentagonCount + 1
                  /\ processedEdges' = AddAll(processedEdges, walk.cycle)
                  /\ newFaces' = Append(newFaces, Face("pentagon", faceVertices))
                  /\ polyIn' = faceVertices
                  /\ polyOut' = createPolygonIndices(faceVertices)
             ELSE UNCHANGED <<pentagonCount, processedEdges, newFaces, polyIn, polyOut>>
  /\ cursor' = cursor + 1
  /\ UNCHANGED laterVars
  /\ UNCHANGED <<pc, originalVertices, newVertices, mergedVertices, vertexMap,
                 allEdges, sharedEdges, pentagonEdges, edgeObjects>>

\* truncateIcosahedron returns (this.truncatedVertices = mergedVertices,
\* this.faces = newFaces); createBoard calls addEdgeVisualization
PentagonsDone ==
  /\ pc = "pentagons"
  /\ cursor >= Len(pentagonEdges)
  /\ pc' = "edgeObjects"
  /\ cursor' = 0
  /\ edgeObjects' = << >>
  /\ UNCHANGED laterVars
  /\ UNCHANGED <<originalVertices, newVertices, newFaces, mergedVertices, vertexMap,
                 allEdges, sharedEdges, pentagonEdges, processedEdges,
                 pentagonCount, lastAttempt, polyIn, polyOut>>

\* EdgeObjectsFor storing the endpoints exchanged
RECURSIVE EdgeObjectsForSwapped(_, _)
EdgeObjectsForSwapped(objects, keys) ==
  IF keys = << >> THEN objects
  ELSE EdgeObjectsForSwapped(
         IF \E k \in 1..Len(objects) : EdgeKey(objects[k].v1, objects[k].v2) = Head(keys)
           THEN objects
           ELSE Append(objects, [v1 |-> Head(keys)[2], v2 |-> Head(keys)[1],
                                 isSelected |-> FALSE, look |-> "default"]),
         Tail(keys))

\* the edge objects created for a list of keys not yet in addedEdges
RECURSIVE EdgeObjectsFor(_, _)
EdgeObjectsFor(objects, keys) ==
  IF keys = << >> THEN objects
  ELSE EdgeObjectsFor(
         IF \E k \in 1..Len(objects) : EdgeKey(objects[k].v1, objects[k].v2) = Head(keys)
           THEN objects
           ELSE Append(objects, [v1 |-> Head(keys)[1], v2 |-> Head(keys)[2],
                                 isSelected |-> FALSE, look |-> "default"]),
         Tail(keys))

\* addEdgeVisualization: the iteration i = cursor over this.truncatedVertices
EdgeObjectsStep ==
  /\ pc = "edgeObjects"
  /\ cursor < Len(mergedVertices)
  /\ edgeObjects' = EdgeObjectsFor(edgeObjects,
                                   BondsFrom(mergedVertices, cursor, cursor + 1))
  /\ cursor' = cursor + 1
  /\ UNCHANGED laterVars
  /\ UNCHANGED <<pc, originalVertices, newVertices, newFaces, mergedVertices,
                 vertexMap, allEdges, sharedEdges, pentagonEdges, processedEdges,
                 pentagonCount, lastAttempt, polyIn, polyOut>>

\* addEdgeVisualization returns: the board is built
EdgeObjectsDone ==
  /\ pc = "edgeObjects"
  /\ cursor >= Len(mergedVertices)
  /\ pc' = "done"
  /\ cursor' = 0
  /\ UNCHANGED laterVars
  /\ UNCHANGED <<originalVertices, newVertices, newFaces, mergedVertices, vertexMap,
                 allEdges, sharedEdges, pentagonEdges, processedEdges,
                 pentagonCount, lastAttempt, edgeObjects, polyIn, polyOut>>

Next ==
  \/ HexagonStep
  \/ MergeStart
  \/ MergeStep
  \/ RewriteFaces
  \/ AllEdgesStep
  \/ AllEdgesDone
  \/ SharedStep
  \/ PentagonEdgesStep
  \/ PentagonSkip
  \/ PentagonStep
  \/ PentagonsDone
  \/ EdgeObjectsStep
  \/ EdgeObjectsDone

Spec == Init /\ [][Next]_vars

---------------------------------------------------------------------------
(* addFaceVisualization: the tile assignment *)

\* the literal allResources: 6 of each resource and 2 deserts
AllResources ==
  [k \in 1..6 |-> "wheat"] \o [k \in 1..6 |-> "wood"] \o [k \in 1..6 |-> "sheep"]
    \o [k \in 1..6 |-> "ore"] \o [k \in 1..6 |-> "brick"] \o [k \in 1..2 |-> "desert"]

\* DiceNumbers without the test num !== 7
DiceNumbersWithSeven == [k \in 1..33 |-> 2 + ((k - 1) \div 3)]

\* the loops filling diceNumbers: 3 of each number 2..12 except 7
DiceNumbers ==
  [k \in 1..30 |-> IF 2 + ((k - 1) \div 3) >= 7 THEN 3 + ((k - 1) \div 3)
                                                ELSE 2 + ((k - 1) \div 3)]

\* no dice value (userData.diceValue is not set)
NoDice == 0

\* Math.random: the stream x, 5x+3, .. modulo RandomModulus of a linear
\* congruential generator, read as the fraction x / RandomModulus
RandomModulus == 16

NextRandom(x) == (5 * x + 3) % RandomModulus

\* Math.floor(Math.random() * currentIndex)
RandomIndex(x, currentIndex) == (x * currentIndex) \div RandomModulus

\* Swap written as two assignments in a row, without a temporary:
\* array[currentIndex] = array[randomIndex]; array[randomIndex] = array[currentIndex]
SwapOverwrite(array, currentIndex, randomIndex) ==
  [array EXCEPT ![currentIndex + 1] = At(array, randomIndex)]

\* [array[currentIndex], array[randomIndex]] = [array[randomIndex], array[currentIndex]]
Swap(array, currentIndex, randomIndex) ==
  [array EXCEPT ![currentIndex + 1] = At(array, randomIndex),
                ![randomIndex + 1] = At(array, currentIndex)]

\* the while loop of shuffle from currentIndex on, the generator in state x
RECURSIVE ShuffleLoop(_, _, _)
ShuffleLoop(array, currentIndex, x) ==
  IF currentIndex = 0 THEN array
  ELSE ShuffleLoop(Swap(array, currentIndex - 1, RandomIndex(x, currentIndex)),
                   currentIndex - 1, NextRandom(x))

\* shuffle(array), the generator in state x at the call
shuffle(array, x) == ShuffleLoop(array, Len(array), x)

\* addFaceVisualization up to the forEach: both shuffles; seedResources and
\* seedDice are the states of the generator at the two calls. The locals of
\* createBoard and truncateIcosahedron are gone: what remains of the mesh is
\* this.truncatedVertices (mergedVertices), this.faces (newFaces) and
\* this.edgeObjects
FaceObjectsStart(seedResources, seedDice) ==
  /\ pc = "done"
  /\ allResources' = shuffle(AllResources, seedResources)
  /\ diceNumbers' = shuffle(DiceNumbers, seedDice)
  /\ tileCount' = 0
  /\ diceIndex' = 0
  /\ faceObjects' = << >>
  /\ pc' = "faceObjects"
  /\ originalVertices' = << >>
  /\ newVertices' = << >>
  /\ vertexMap' = << >>
  /\ allEdges' = << >>
  /\ sharedEdges' = << >>
  /\ pentagonEdges' = << >>
  /\ processedEdges' = << >>
  /\ pentagonCount' = 0
  /\ lastAttempt' = [startEdge |-> NoEdge, cycle |-> << >>, foundCycle |-> FALSE]
  /\ polyIn' = << >>
  /\ polyOut' = << >>
  /\ UNCHANGED <<rerun, shuffling, uiVars, gameVars>>
  /\ UNCHANGED <<cursor, newFaces, mergedVertices, edgeObjects>>

\* addFaceVisualization: the iteration of this.faces.forEach for face number
\* tileCount; reading diceNumbers past its end throws
FaceObjectStep ==
  /\ pc = "faceObjects"
  /\ tileCount < Len(newFaces)
  /\ LET face == At(newFaces, tileCount)
         resourceType == IF tileCount < Len(allResources)
                           THEN At(allResources, tileCount)
                           ELSE "undefined"
         mesh == [faceIndex |-> tileCount, faceType |-> face.type,
                  resourceType |-> resourceType, isSelected |-> FALSE,
                  vertices |-> face.vertices, diceValue |-> NoDice]
     IN IF resourceType # "desert"
          THEN IF diceIndex < Len(diceNumbers)
                 THEN /\ faceObjects' =
                           Append(faceObjects,
                                  [mesh EXCEPT !.diceValue = At(diceNumbers, diceIndex)])
                      /\ diceIndex' = diceIndex + 1
                      /\ tileCount' = tileCount + 1
                      /\ pc' = pc
                 ELSE /\ faceObjects' = Append(faceObjects, mesh)
                      /\ pc' = "threw"
                      /\ UNCHANGED <<diceIndex, tileCount>>
          ELSE /\ faceObjects' = Append(faceObjects, mesh)
               /\ tileCount' = tileCount + 1
               /\ pc' = pc
               /\ UNCHANGED diceIndex
  /\ UNCHANGED <<allResources, diceNumbers>>
  /\ UNCHANGED <<rerun, shuffling, uiVars, gameVars>>
  /\ UNCHANGED <<cursor, originalVertices, newVertices, newFaces, mergedVertices,
                 vertexMap, allEdges, sharedEdges, pentagonEdges, processedEdges,
                 pentagonCount, lastAttempt, edgeObjects, polyIn, polyOut>>

\* addFaceVisualization returns; addVertexVisualization creates one vertex
\* object per vertex; setupEventListeners registers the handlers
AddVertexVisualization ==
  /\ pc = "faceObjects"
  /\ tileCount >= Len(newFaces)
  /\ vertexObjects' = [k \in 1..Len(mergedVertices) |->
                         [vertexIndex |-> k - 1, isSelected |-> FALSE, look |-> "default"]]
  /\ pc' = "ready"
  /\ UNCHANGED <<pointer, picked, selected, menu>>
  /\ UNCHANGED <<rerun, shuffling, tileVars, gameVars>>
  /\ UNCHANGED <<cursor, originalVertices, newVertices, newFaces, mergedVertices,
                 vertexMap, allEdges, sharedEdges, pentagonEdges, processedEdges,
                 pentagonCount, lastAttempt, edgeObjects, polyIn, polyOut>>

\* the generator is in one of the states 0..MaxSeed when shuffle is called
MaxSeed == 2

\* the constructor up to the first event
NextTiles ==
  \/ HexagonStep
  \/ MergeStart
  \/ MergeStep
  \/ RewriteFaces
  \/ AllEdgesStep
  \/ AllEdgesDone
  \/ SharedStep
  \/ PentagonEdgesStep
  \/ PentagonSkip
  \/ PentagonStep
  \/ PentagonsDone
  \/ EdgeObjectsStep
  \/ EdgeObjectsDone
  \/ \E seedResources, seedDice \in 0..MaxSeed : FaceObjectsStart(seedResources, seedDice)
  \/ FaceObjectStep
  \/ AddVertexVisualization

SpecTiles == Init /\ [][NextTiles]_vars

---------------------------------------------------------------------------
(* setupEventListeners: the mouse handlers *)

\* the margin 0.1 of the priority tests, in units of 0.05 of ray distance
PickMargin == 2

\* intersects.length > 0
IsHit(hit) == hit.index >= 0

\* the if / else if chain on faceIntersects, edgeIntersects and
\* vertexIntersects, the same in both handlers: the kind of object taken
ResolvePick(hits) ==
  IF /\ IsHit(hits.face)
     /\ (~IsHit(hits.edge) \/ hits.edge.distance > hits.face.distance + PickMargin)
     /\ (~IsHit(hits.vertex) \/ hits.vertex.distance > hits.face.distance + PickMargin)
    THEN "face"
  ELSE IF /\ IsHit(hits.edge)
          /\ (~IsHit(hits.vertex) \/ hits.edge.distance > hits.vertex.distance + PickMargin)
    THEN "edge"
  ELSE IF IsHit(hits.vertex) THEN "vertex"
  ELSE "none"

\* the index of the object taken by ResolvePick
PickedIndex(hits) ==
  IF ResolvePick(hits) = "face" THEN hits.face.index
  ELSE IF ResolvePick(hits) = "edge" THEN hits.edge.index
  ELSE IF ResolvePick(hits) = "vertex" THEN hits.vertex.index
  ELSE -1

\* OnFace with || for &&
OnFaceEitherEnd(edge, face) ==
  Includes(face.vertices, edge.v1) \/ Includes(face.vertices, edge.v2)

\* face.userData.vertices.includes(edge.userData.v1) && ..includes(..v2)
OnFace(edge, face) == Includes(face.vertices, edge.v1) /\ Includes(face.vertices, edge.v2)

\* the ray hits only objects that exist
ValidHits(hits) ==
  /\ hits.face.index < Len(faceObjects)
  /\ hits.edge.index < Len(edgeObjects)
  /\ hits.vertex.index < Len(vertexObjects)

\* MarkFaceEdges keeping only the edge objects of the face
MarkFaceEdgesOnly(objects, face) ==
  SelectSeq([k \in 1..Len(objects) |->
               [objects[k] EXCEPT !.isSelected = TRUE, !.look = "selected"]],
            LAMBDA edge : OnFace(edge, face))

\* click on a face: the edge objects of the face get isSelected = true and,
\* by updateFaceEdges(face, true, false), the selected look
MarkFaceEdges(objects, face) ==
  [k \in 1..Len(objects) |->
     IF OnFace(objects[k], face)
       THEN [objects[k] EXCEPT !.isSelected = TRUE, !.look = "selected"]
       ELSE objects[k]]

\* showBuildOptions(type, data): the container is shown with one build button
showBuildOptions(type, data) ==
  [display |-> "block",
   call |-> IF type = "edge" THEN "buildRoad"
            ELSE IF Includes(settlements, data) THEN "upgradeToCity"
            ELSE "buildSettlement",
   arg |-> data]

\* the mousemove handler, the ray hitting `hits`
MouseMove(hits) ==
  /\ pc = "ready"
  /\ ValidHits(hits)
  /\ pointer' = hits
  /\ picked' = [event |-> "mousemove", kind |-> ResolvePick(hits),
                index |-> PickedIndex(hits)]
  /\ LET resetEdges == [k \in 1..Len(edgeObjects) |->
                          IF edgeObjects[k].isSelected THEN edgeObjects[k]
                          ELSE [edgeObjects[k] EXCEPT !.look = "default"]]
         resetVertices == [k \in 1..Len(vertexObjects) |->
                             IF vertexObjects[k].isSelected THEN vertexObjects[k]
                             ELSE [vertexObjects[k] EXCEPT !.look = "default"]]
     IN /\ edgeObjects' =
             IF ResolvePick(hits) = "face"
               THEN [k \in 1..Len(resetEdges) |->
                       IF OnFace(resetEdges[k], At(faceObjects, hits.face.index))
                         THEN [resetEdges[k] EXCEPT !.look = "hover"]
                         ELSE resetEdges[k]]
             ELSE IF ResolvePick(hits) = "edge"
                       /\ ~At(resetEdges, hits.edge.index).isSelected
               THEN [resetEdges EXCEPT ![hits.edge.index + 1].look = "hover"]
             ELSE resetEdges
        /\ vertexObjects' =
             IF ResolvePick(hits) = "vertex"
                  /\ ~At(resetVertices, hits.vertex.index).isSelected
               THEN [resetVertices EXCEPT ![hits.vertex.index + 1].look = "hover"]
               ELSE resetVertices
  /\ UNCHANGED <<selected, menu>>
  /\ UNCHANGED <<rerun, shuffling, tileVars, gameVars>>
  /\ UNCHANGED <<pc, cursor, originalVertices, newVertices, newFaces, mergedVertices,
                 vertexMap, allEdges, sharedEdges, pentagonEdges, processedEdges,
                 pentagonCount, lastAttempt, polyIn, polyOut>>

\* the click handler, the ray hitting `hits`
Click(hits) ==
  /\ pc = "ready"
  /\ ValidHits(hits)
  /\ pointer' = hits
  /\ picked' = [event |-> "click", kind |-> ResolvePick(hits),
                index |-> PickedIndex(hits)]
  /\ LET resetEdges == [k \in 1..Len(edgeObjects) |->
                          [edgeObjects[k] EXCEPT !.isSelected = FALSE, !.look = "default"]]
         resetVertices == [k \in 1..Len(vertexObjects) |->
                             [vertexObjects[k] EXCEPT !.isSelected = FALSE,
                                                      !.look = "default"]]
     IN IF ResolvePick(hits) = "face"
          THEN /\ edgeObjects' = MarkFaceEdges(resetEdges, At(faceObjects, hits.face.index))
               /\ vertexObjects' = resetVertices
               /\ selected' = [face |-> hits.face.index, edge |-> -1, vertex |-> -1]
               /\ menu' = menu
        ELSE IF ResolvePick(hits) = "edge"
          THEN /\ edgeObjects' = [resetEdges EXCEPT
                                    ![hits.edge.index + 1].isSelected = TRUE,
                                    ![hits.edge.index + 1].look = "selected"]
               /\ vertexObjects' = resetVertices
               /\ selected' = [face |-> -1, edge |-> hits.edge.index, vertex |-> -1]
               /\ menu' = showBuildOptions("edge",
                                           <<At(edgeObjects, hits.edge.index).v1,
                                             At(edgeObjects, hits.edge.index).v2>>)
        ELSE IF ResolvePick(hits) = "vertex"
          THEN /\ edgeObjects' = resetEdges
               /\ vertexObjects' = [resetVertices EXCEPT
                                      ![hits.vertex.index + 1].isSelected = TRUE,
                                      ![hits.vertex.index + 1].look = "selected"]
               /\ selected' = [face |-> -1, edge |-> -1, vertex |-> hits.vertex.index]
               /\ menu' = showBuildOptions("vertex",
                                           At(vertexObjects, hits.vertex.index).vertexIndex)
        ELSE /\ edgeObjects' = resetEdges
             /\ vertexObjects' = resetVertices
             /\ UNCHANGED <<selected, menu>>
  /\ UNCHANGED <<rerun, shuffling, tileVars, gameVars>>
  /\ UNCHANGED <<pc, cursor, originalVertices, newVertices, newFaces, mergedVertices,
                 vertexMap, allEdges, sharedEdges, pentagonEdges, processedEdges,
                 pentagonCount, lastAttempt, polyIn, polyOut>>

\* animate: one frame (controls.update and render write none of the fields)
Animate ==
  /\ pc = "ready"
  /\ UNCHANGED vars

---------------------------------------------------------------------------
(* The build operations *)

\* this.hideBuildOptions()
hideBuildOptions(container) == [container EXCEPT !.display = "none"]

\* buildRoad without the test that the key names an edge object
buildRoadAnyKey(edgeKey) ==
  /\ pc = "ready"
  /\ IF ~Includes(roads, edgeKey)
       THEN /\ roads' = Append(roads, edgeKey)
            /\ resources' = [resources EXCEPT !.wood = @ - 1, !.brick = @ - 1]
            /\ menu' = hideBuildOptions(menu)
       ELSE UNCHANGED <<roads, resources, menu>>
  /\ UNCHANGED <<settlements, cities>>
  /\ UNCHANGED <<vertexObjects, pointer, picked, selected>>
  /\ UNCHANGED <<rerun, shuffling, tileVars, meshVars>>

\* buildRoad taking wood only
buildRoadWoodOnly(edgeKey) ==
  /\ pc = "ready"
  /\ IF /\ \E k \in 1..Len(edgeObjects) :
             \/ <<edgeObjects[k].v1, edgeObjects[k].v2>> = edgeKey
             \/ <<edgeObjects[k].v2, edgeObjects[k].v1>> = edgeKey
        /\ ~Includes(roads, edgeKey)
       THEN /\ roads' = Append(roads, edgeKey)
            /\ resources' = [resources EXCEPT !.wood = @ - 1]
            /\ menu' = hideBuildOptions(menu)
       ELSE UNCHANGED <<roads, resources, menu>>
  /\ UNCHANGED <<settlements, cities>>
  /\ UNCHANGED <<vertexObjects, pointer, picked, selected>>
  /\ UNCHANGED <<rerun, shuffling, tileVars, meshVars>>

\* buildRoad(edgeKey); the key "a,b" is the pair <<a, b>>
buildRoad(edgeKey) ==
  /\ pc = "ready"
  /\ IF /\ \E k \in 1..Len(edgeObjects) :
             \/ <<edgeObjects[k].v1, edgeObjects[k].v2>> = edgeKey
             \/ <<edgeObjects[k].v2, edgeObjects[k].v1>> = edgeKey
        /\ ~Includes(roads, edgeKey)
       THEN /\ roads' = Append(roads, edgeKey)
            /\ resources' = [resources EXCEPT !.wood = @ - 1, !.brick = @ - 1]
            /\ menu' = hideBuildOptions(menu)
       ELSE UNCHANGED <<roads, resources, menu>>
  /\ UNCHANGED <<settlements, cities>>
  /\ UNCHANGED <<vertexObjects, pointer, picked, selected>>
  /\ UNCHANGED <<rerun, shuffling, tileVars, meshVars>>

\* buildSettlement(vertexIndex), vertexIndex an index of truncatedVertices
buildSettlement(vertexIndex) ==
  /\ pc = "ready"
  /\ vertexIndex \in 0..(Len(mergedVertices) - 1)
  /\ IF ~Includes(settlements, vertexIndex)
       THEN /\ settlements' = Append(settlements, vertexIndex)
            /\ resources' = [resources EXCEPT !.wood = @ - 1, !.brick = @ - 1,
                                              !.wheat = @ - 1, !.sheep = @ - 1]
            /\ menu' = hideBuildOptions(menu)
       ELSE UNCHANGED <<settlements, resources, menu>>
  /\ UNCHANGED <<roads, cities>>
  /\ UNCHANGED <<vertexObjects, pointer, picked, selected>>
  /\ UNCHANGED <<rerun, shuffling, tileVars, meshVars>>

\* upgradeToCity without the test this.buildings.settlements.has(vertexIndex)
upgradeToCityAnywhere(vertexIndex) ==
  /\ pc = "ready"
  /\ IF ~Includes(cities, vertexIndex)
       THEN /\ settlements' = SelectSeq(settlements, LAMBDA v : v # vertexIndex)
            /\ cities' = Append(cities, vertexIndex)
            /\ resources' = [resources EXCEPT !.wheat = @ - 2, !.ore = @ - 3]
            /\ menu' = hideBuildOptions(menu)
       ELSE UNCHANGED <<settlements, cities, resources, menu>>
  /\ UNCHANGED roads
  /\ UNCHANGED <<vertexObjects, pointer, picked, selected>>
  /\ UNCHANGED <<rerun, shuffling, tileVars, meshVars>>

\* upgradeToCity(vertexIndex)
upgradeToCity(vertexIndex) ==
  /\ pc = "ready"
  /\ IF Includes(settlements, vertexIndex) /\ ~Includes(cities, vertexIndex)
       THEN /\ settlements' = SelectSeq(settlements, LAMBDA v : v # vertexIndex)
            /\ cities' = Append(cities, vertexIndex)
            /\ resources' = [resources EXCEPT !.wheat = @ - 2, !.ore = @ - 3]
            /\ menu' = hideBuildOptions(menu)
       ELSE UNCHANGED <<settlements, cities, resources, menu>>
  /\ UNCHANGED roads
  /\ UNCHANGED <<vertexObjects, pointer, picked, selected>>
  /\ UNCHANGED <<rerun, shuffling, tileVars, meshVars>>

\* a click on the build button of the visible container
BuildButton ==
  /\ menu.display = "block"
  /\ \/ menu.call = "buildRoad" /\ buildRoad(menu.arg)
     \/ menu.call = "buildSettlement" /\ buildSettlement(menu.arg)
     \/ menu.call = "upgradeToCity" /\ upgradeToCity(menu.arg)

\* a click on the close button of the visible container
CloseButton ==
  /\ pc = "ready"
  /\ menu.display = "block"
  /\ menu' = hideBuildOptions(menu)
  /\ UNCHANGED <<vertexObjects, pointer, picked, selected>>
  /\ UNCHANGED <<rerun, shuffling, tileVars, gameVars, meshVars>>

---------------------------------------------------------------------------
(* The whole program: the constructor, then mouse events on a few objects of
   the board and clicks on the buttons of the build menu *)

\* the events hit the first edge object
GameEdges == {0}

\* the events hit the vertex objects 0..MaxPickVertex
MaxPickVertex == 0

\* the events hit the first hexagon and the first pentagon
GameFaces == {0, 20}

\* the state of the generator at both shuffles of the game
GameSeed == 0

\* the ray hits nothing, or one object at distance 0
GameHits ==
  {[face |-> NoHit, edge |-> NoHit, vertex |-> NoHit]}
    \cup {[face |-> [index |-> f, distance |-> 0], edge |-> NoHit, vertex |-> NoHit] :
            f \in GameFaces}
    \cup {[face |-> NoHit, edge |-> [index |-> e, distance |-> 0], vertex |-> NoHit] :
            e \in GameEdges}
    \cup {[face |-> NoHit, edge |-> NoHit, vertex |-> [index |-> v, distance |-> 0]] :
            v \in 0..MaxPickVertex}

NextGame ==
  \/ HexagonStep
  \/ MergeStart
  \/ MergeStep
  \/ RewriteFaces
  \/ AllEdgesStep
  \/ AllEdgesDone
  \/ SharedStep
  \/ PentagonEdgesStep
  \/ PentagonSkip
  \/ PentagonStep
  \/ PentagonsDone
  \/ EdgeObjectsStep
  \/ EdgeObjectsDone
  \/ FaceObjectsStart(GameSeed, GameSeed)
  \/ FaceObjectStep
  \/ AddVertexVisualization
  \/ \E hits \in GameHits : MouseMove(hits)
  \/ \E hits \in GameHits : Click(hits)
  \/ Animate
  \/ BuildButton
  \/ CloseButton

SpecGame == Init /\ [][NextGame]_vars

---------------------------------------------------------------------------
(* The mouse handlers under rays that hit several kinds of object *)

\* the ray distances are 0..MaxDistance units of 0.05
MaxDistance == 3

\* a hit of object 0 at any distance, or no hit
HitOrMiss == {NoHit} \cup {[index |-> 0, distance |-> d] : d \in 0..MaxDistance}

\* the ray hits the first face, the first edge object and the first vertex
\* object, each or not, at any distance
PickHits == [face : HitOrMiss, edge : HitOrMiss, vertex : HitOrMiss]

NextPick ==
  \/ HexagonStep
  \/ MergeStart
  \/ MergeStep
  \/ RewriteFaces
  \/ AllEdgesStep
  \/ AllEdgesDone
  \/ SharedStep
  \/ PentagonEdgesStep
  \/ PentagonSkip
  \/ PentagonStep
  \/ PentagonsDone
  \/ EdgeObjectsStep
  \/ EdgeObjectsDone
  \/ FaceObjectsStart(GameSeed, GameSeed)
  \/ FaceObjectStep
  \/ AddVertexVisualization
  \/ \E hits \in PickHits : MouseMove(hits)
  \/ \E hits \in PickHits : Click(hits)

SpecPick == Init /\ [][NextPick]_vars

---------------------------------------------------------------------------
(* The build operations called for one vertex after the other *)

\* the vertex developed next: the vertices below it carry a city
NextSite == Len(cities)

\* the constructor, then buildSettlement and upgradeToCity at vertex 0, then
\* at vertex 1, and so on
NextLedger ==
  \/ HexagonStep
  \/ MergeStart
  \/ MergeStep
  \/ RewriteFaces
  \/ AllEdgesStep
  \/ AllEdgesDone
  \/ SharedStep
  \/ PentagonEdgesStep
  \/ PentagonSkip
  \/ PentagonStep
  \/ PentagonsDone
  \/ EdgeObjectsStep
  \/ EdgeObjectsDone
  \/ FaceObjectsStart(GameSeed, GameSeed)
  \/ FaceObjectStep
  \/ AddVertexVisualization
  \/ buildSettlement(NextSite)
  \/ upgradeToCity(NextSite)

SpecLedger == Init /\ [][NextLedger]_vars

---------------------------------------------------------------------------
(* The build operations called with any argument, between clicks on one edge
   object and one vertex object and on the buttons of the build menu *)

\* buildRoad is called for the edge objects 0..MaxCallEdge
MaxCallEdge == 0

\* buildSettlement and upgradeToCity are called for the vertices 0..MaxCallVertex
MaxCallVertex == 0

\* a key that names no edge: no edge object joins a vertex to itself
UnknownKey == <<0, 0>>

\* the keys given to buildRoad: `${v1},${v2}` and `${v2},${v1}` of the edge
\* objects 0..MaxCallEdge, and a key of no edge
CallKeys ==
  {UnknownKey}
    \cup {<<edgeObjects[k].v1, edgeObjects[k].v2>> :
            k \in 1..Min2(MaxCallEdge + 1, Len(edgeObjects))}
    \cup {<<edgeObjects[k].v2, edgeObjects[k].v1>> :
            k \in 1..Min2(MaxCallEdge + 1, Len(edgeObjects))}

\* the click hits nothing, the first edge object or the first vertex object
CallHits ==
  {[face |-> NoHit, edge |-> NoHit, vertex |-> NoHit],
   [face |-> NoHit, edge |-> [index |-> 0, distance |-> 0], vertex |-> NoHit],
   [face |-> NoHit, edge |-> NoHit, vertex |-> [index |-> 0, distance |-> 0]]}

NextCalls ==
  \/ HexagonStep
  \/ MergeStart
  \/ MergeStep
  \/ RewriteFaces
  \/ AllEdgesStep
  \/ AllEdgesDone
  \/ SharedStep
  \/ PentagonEdgesStep
  \/ PentagonSkip
  \/ PentagonStep
  \/ PentagonsDone
  \/ EdgeObjectsStep
  \/ EdgeObjectsDone
  \/ FaceObjectsStart(GameSeed, GameSeed)
  \/ FaceObjectStep
  \/ AddVertexVisualization
  \/ \E hits \in CallHits : Click(hits)
  \/ \E edgeKey \in CallKeys : buildRoad(edgeKey)
  \/ \E vertexIndex \in 0..MaxCallVertex : buildSettlement(vertexIndex)
  \/ \E vertexIndex \in 0..MaxCallVertex : upgradeToCity(vertexIndex)
  \/ BuildButton
  \/ CloseButton

SpecCalls == Init /\ [][NextCalls]_vars

---------------------------------------------------------------------------
(* truncateIcosahedron on an icosahedron that is not regular *)

\* the x coordinates of the geometry are stretched by 0..MaxStretch tenths
MaxStretch == 1

\* the positions with x scaled by (10 + tenths) / 10
Stretched(positions, tenths) ==
  [k \in 1..Len(positions) |->
     <<(positions[k][1] * (10 + tenths)) \div 10, positions[k][2], positions[k][3]>>]

\* truncateIcosahedron is about to run on a regular or a stretched geometry
InitIrregular ==
  /\ pc = "hexagons"
  /\ cursor = 0
  /\ \E tenths \in 0..MaxStretch : originalVertices = Stretched(IcoPositions, tenths)
  /\ newVertices = << >>
  /\ newFaces = << >>
  /\ mergedVertices = << >>
  /\ vertexMap = << >>
  /\ allEdges = << >>
  /\ sharedEdges = << >>
  /\ pentagonEdges = << >>
  /\ processedEdges = << >>
  /\ pentagonCount = 0
  /\ lastAttempt = [startEdge |-> NoEdge, cycle |-> << >>, foundCycle |-> FALSE]
  /\ edgeObjects = << >>
  /\ polyIn = << >>
  /\ polyOut = << >>
  /\ InitLater

SpecIrregular == InitIrregular /\ [][Next]_vars

---------------------------------------------------------------------------
(* mergeCloseVertices on arbitrary point lists *)

\* the longest point list given to mergeCloseVertices
MaxPoints == 4

\* the points lie on the grid 0..GridMax x 0..1 x 0..0 whose spacing is
\* half the merge tolerance
GridMax == 3

GridPoints ==
  {<<x * (MergeTolerance \div 2), y * (MergeTolerance \div 2), 0>> :
     x \in 0..GridMax, y \in 0..1}

PointLists == UNION {[1..n -> GridPoints] : n \in 1..MaxPoints}

\* mergeCloseVertices is about to be called on an arbitrary point list
InitMerge ==
  /\ pc = "merge"
  /\ cursor = 0
  /\ originalVertices = << >>
  /\ newVertices \in PointLists
  /\ newFaces = << >>
  /\ mergedVertices = << >>
  /\ vertexMap = << >>
  /\ allEdges = << >>
  /\ sharedEdges = << >>
  /\ pentagonEdges = << >>
  /\ processedEdges = << >>
  /\ pentagonCount = 0
  /\ lastAttempt = [startEdge |-> NoEdge, cycle |-> << >>, foundCycle |-> FALSE]
  /\ edgeObjects = << >>
  /\ polyIn = << >>
  /\ polyOut = << >>
  /\ InitLater

NextMerge ==
  \/ MergeStart
  \/ MergeStep

SpecMerge == InitMerge /\ [][NextMerge]_vars

---------------------------------------------------------------------------
(* mergeCloseVertices on a point list and on the same list with one point
   displaced *)

\* the longest point list of the pair of calls
MaxPerturbPoints == 3

\* the points lie on a line at 0..PerturbReach quarters of the merge
\* tolerance
PerturbReach == 12

\* the place of the two coincident points on the line
CoincidentAt == <<3 * (MergeTolerance \div 4), 0, 0>>

PerturbPositions == {<<x * (MergeTolerance \div 4), 0, 0>> : x \in 0..PerturbReach}

\* mergeCloseVertices is about to be called on a list holding two coincident
\* points; the second call will get the list with one of the two displaced
InitPerturb ==
  /\ pc = "merge"
  /\ cursor = 0
  /\ originalVertices = << >>
  /\ \E n \in 2..MaxPerturbPoints :
       \E list \in [1..n -> PerturbPositions] :
         \E i \in 1..n :
           \E q \in PerturbPositions :
             /\ list[i] = CoincidentAt
             /\ \E j \in 1..n : j # i /\ list[j] = CoincidentAt
             /\ newVertices = list
             /\ rerun = [base |-> list, moved |-> [list EXCEPT ![i] = q],
                         index |-> i - 1, baseCount |-> -1]
  /\ newFaces = << >>
  /\ mergedVertices = << >>
  /\ vertexMap = << >>
  /\ allEdges = << >>
  /\ sharedEdges = << >>
  /\ pentagonEdges = << >>
  /\ processedEdges = << >>
  /\ pentagonCount = 0
  /\ lastAttempt = [startEdge |-> NoEdge, cycle |-> << >>, foundCycle |-> FALSE]
  /\ edgeObjects = << >>
  /\ polyIn = << >>
  /\ polyOut = << >>
  /\ shuffling = NoShuffle
  /\ InitFields

\* the first call has returned: its merged count is kept and
\* mergeCloseVertices is called on the displaced list
MergeAgain ==
  /\ pc = "merging"
  /\ cursor >= Len(newVertices)
  /\ rerun.moved # << >>
  /\ rerun.baseCount < 0
  /\ rerun' = [rerun EXCEPT !.baseCount = Len(mergedVertices)]
  /\ newVertices' = rerun.moved
  /\ pc' = "merge"
  /\ cursor' = 0
  /\ UNCHANGED <<shuffling, tileVars, uiVars, gameVars>>
  /\ UNCHANGED <<originalVertices, newFaces, mergedVertices, vertexMap, allEdges,
                 sharedEdges, pentagonEdges, processedEdges, pentagonCount,
                 lastAttempt, edgeObjects, polyIn, polyOut>>

NextPerturb ==
  \/ MergeStart
  \/ MergeStep
  \/ MergeAgain

SpecPerturb == InitPerturb /\ [][NextPerturb]_vars

---------------------------------------------------------------------------
(* createPolygonIndices on arbitrary boundaries *)

\* the longest boundary given to createPolygonIndices
MaxBoundary == 5

\* the boundaries hold vertex indices 0..MaxIndex
MaxIndex == 3

Boundaries == UNION {[1..n -> 0..MaxIndex] : n \in 3..MaxBoundary}

\* createPolygonIndices is about to be called on an arbitrary boundary
InitPolygon ==
  /\ pc = "polygon"
  /\ cursor = 0
  /\ originalVertices = << >>
  /\ newVertices = << >>
  /\ newFaces = << >>
  /\ mergedVertices = << >>
  /\ vertexMap = << >>
  /\ allEdges = << >>
  /\ sharedEdges = << >>
  /\ pentagonEdges = << >>
  /\ processedEdges = << >>
  /\ pentagonCount = 0
  /\ lastAttempt = [startEdge |-> NoEdge, cycle |-> << >>, foundCycle |-> FALSE]
  /\ edgeObjects = << >>
  /\ polyIn \in Boundaries
  /\ polyOut = << >>
  /\ InitLater

\* the call createPolygonIndices(polyIn)
PolygonCall ==
  /\ pc = "polygon"
  /\ polyOut' = createPolygonIndices(polyIn)
  /\ pc' = "polygonDone"
  /\ UNCHANGED laterVars
  /\ UNCHANGED <<cursor, originalVertices, newVertices, newFaces, mergedVertices,
                 vertexMap, allEdges, sharedEdges, pentagonEdges, processedEdges,
                 pentagonCount, lastAttempt, edgeObjects, polyIn>>

NextPolygon == PolygonCall

SpecPolygon == InitPolygon /\ [][NextPolygon]_vars

---------------------------------------------------------------------------
(* shuffle on arbitrary arrays, under every outcome of Math.random *)

\* the longest array given to shuffle
MaxShuffleLen == 3

\* the elements of the arrays: values that may repeat
ShuffleItems == {"wheat", "wood", "desert"}

ShuffleArrays == UNION {[1..n -> ShuffleItems] : n \in 0..MaxShuffleLen}

\* shuffle(array) is about to run its loop: currentIndex = array.length
InitShuffle ==
  /\ pc = "shuffle"
  /\ cursor = 0
  /\ originalVertices = << >>
  /\ newVertices = << >>
  /\ newFaces = << >>
  /\ mergedVertices = << >>
  /\ vertexMap = << >>
  /\ allEdges = << >>
  /\ sharedEdges = << >>
  /\ pentagonEdges = << >>
  /\ processedEdges = << >>
  /\ pentagonCount = 0
  /\ lastAttempt = [startEdge |-> NoEdge, cycle |-> << >>, foundCycle |-> FALSE]
  /\ edgeObjects = << >>
  /\ polyIn = << >>
  /\ polyOut = << >>
  /\ rerun = NoRerun
  /\ \E array \in ShuffleArrays :
       shuffling = [given |-> array, array |-> array, currentIndex |-> Len(array),
                    iterations |-> 0, result |-> << >>]
  /\ InitFields

\* one iteration of the while loop, Math.random() returning x / RandomModulus
ShuffleStep ==
  /\ pc = "shuffle"
  /\ shuffling.currentIndex # 0
  /\ \E x \in 0..(RandomModulus - 1) :
       LET randomIndex == RandomIndex(x, shuffling.currentIndex)
           currentIndex == shuffling.currentIndex - 1
       IN shuffling' = [shuffling EXCEPT
                          !.array = Swap(shuffling.array, currentIndex, randomIndex),
                          !.currentIndex = currentIndex,
                          !.iterations = @ + 1]
  /\ UNCHANGED <<rerun, tileVars, uiVars, gameVars, meshVars>>

\* the loop is left and the array is returned
ShuffleReturn ==
  /\ pc = "shuffle"
  /\ shuffling.currentIndex = 0
  /\ shuffling' = [shuffling EXCEPT !.result = shuffling.array]
  /\ pc' = "shuffleDone"
  /\ UNCHANGED <<rerun, tileVars, uiVars, gameVars>>
  /\ UNCHANGED <<cursor, originalVertices, newVertices, newFaces, mergedVertices,
                 vertexMap, allEdges, sharedEdges, pentagonEdges, processedEdges,
                 pentagonCount, lastAttempt, edgeObjects, polyIn, polyOut>>

NextShuffle == ShuffleStep \/ ShuffleReturn

\* shuffle is synchronous code: it runs on until it returns
SpecShuffle == InitShuffle /\ [][NextShuffle]_vars /\ WF_vars(NextShuffle)

---------------------------------------------------------------------------
(* cycle extraction on arbitrary candidate edge sets *)

\* the candidate edges join vertices 0..PentVertices-1
PentVertices == 6

\* the largest candidate edge set
MaxCandidates == 6

\* all pairs i < j in the order of the bond filter's loops
RECURSIVE PairsFrom(_, _)
PairsFrom(n, i) ==
  IF i >= n THEN << >>
  ELSE [k \in 1..(n - 1 - i) |-> <<i, i + k>>] \o PairsFrom(n, i + 1)

CandidateSets ==
  {S \in SUBSET Range(PairsFrom(PentVertices, 0)) : Cardinality(S) <= MaxCandidates}

\* cycle extraction is about to start on an arbitrary candidate edge set,
\* held in the insertion order of the bond filter
InitPentagons ==
  /\ pc = "pentagons"
  /\ cursor = 0
  /\ originalVertices = << >>
  /\ newVertices = << >>
  /\ newFaces = << >>
  /\ mergedVertices = << >>
  /\ vertexMap = << >>
  /\ \E S \in CandidateSets :
       /\ allEdges = SelectSeq(PairsFrom(PentVertices, 0), LAMBDA e : e \in S)
       /\ pentagonEdges = SelectSeq(PairsFrom(PentVertices, 0), LAMBDA e : e \in S)
  /\ sharedEdges = << >>
  /\ processedEdges = << >>
  /\ pentagonCount = 0
  /\ lastAttempt = [startEdge |-> NoEdge, cycle |-> << >>, foundCycle |-> FALSE]
  /\ edgeObjects = << >>
  /\ polyIn = << >>
  /\ polyOut = << >>
  /\ InitLater

NextPentagons ==
  \/ PentagonSkip
  \/ PentagonStep

SpecPentagons == InitPentagons /\ [][NextPentagons]_vars

---------------------------------------------------------------------------
(* Properties of the built board *)

\* C1: building the board from the 20 triangles of the radius-5
\* icosahedron yields exactly 120 raw truncation points, which merge to
\* exactly 60 vertices, and exactly 20 hexagons and 12 pentagons, 32 faces.
C1_BoardCounts ==
  pc = "done" =>
    /\ Len(originalVertices) = 3 * 20
    /\ Len(newVertices) = 120
    /\ Len(mergedVertices) = 60
    /\ Cardinality({k \in 1..Len(newFaces) : newFaces[k].type = "hexagon"}) = 20
    /\ Cardinality({k \in 1..Len(newFaces) : newFaces[k].type = "pentagon"}) = 12
    /\ Len(newFaces) = 32

\* the board is built from the 20 triangles and has faces of both kinds
C1_Witness ==
  /\ pc = "done"
  /\ Len(originalVertices) = 60
  /\ pentagonCount > 0
  /\ Len(vertexMap) = Len(newVertices)

\* C2: edge derivation over the merged vertices yields exactly one edge
\* object per unordered vertex pair at the bond length, each stored with
\* v1 < v2, no pair twice, 90 edges in all, and V - E + F = 2.
C2_DerivedEdges ==
  pc = "done" =>
    /\ \A k \in 1..Len(edgeObjects) : edgeObjects[k].v1 < edgeObjects[k].v2
    /\ \A k, m \in 1..Len(edgeObjects) :
         k # m => <<edgeObjects[k].v1, edgeObjects[k].v2>>
                    # <<edgeObjects[m].v1, edgeObjects[m].v2>>
    /\ {<<edgeObjects[k].v1, edgeObjects[k].v2>> : k \in 1..Len(edgeObjects)}
         = {e \in (0..(Len(mergedVertices) - 1)) \X (0..(Len(mergedVertices) - 1)) :
              e[1] < e[2] /\ IsBond(At(mergedVertices, e[1]), At(mergedVertices, e[2]))}
    /\ Len(edgeObjects) = 90
    /\ Len(mergedVertices) - Len(edgeObjects) + Len(newFaces) = 2

\* the edge objects of the built board exist
C2_Witness ==
  /\ pc = "done"
  /\ Len(edgeObjects) > 0
  /\ Len(mergedVertices) > 0

\* C3: in the finished mesh every derived edge belongs to exactly two
\* faces: exactly two faces of the final face list contain both endpoints.
C3_EdgeInTwoFaces ==
  pc = "done" =>
    \A k \in 1..Len(edgeObjects) :
      Cardinality({f \in 1..Len(newFaces) :
                     /\ Includes(newFaces[f].vertices, edgeObjects[k].v1)
                     /\ Includes(newFaces[f].vertices, edgeObjects[k].v2)}) = 2

\* the finished mesh has derived edges, hexagons and pentagons
C3_Witness ==
  /\ pc = "done"
  /\ Len(edgeObjects) > 0
  /\ \E f \in 1..Len(newFaces) : newFaces[f].type = "pentagon"
  /\ \E f \in 1..Len(newFaces) : newFaces[f].type = "hexagon"

\* C4: face-boundary closure: in every face of the finished mesh each
\* vertex and its cyclic successor (last back to first) form a derived edge.
C4_BoundaryClosure ==
  pc = "done" =>
    \A f \in 1..Len(newFaces) :
      \A m \in 1..Len(newFaces[f].vertices) :
        \E k \in 1..Len(edgeObjects) :
          {edgeObjects[k].v1, edgeObjects[k].v2}
            = {newFaces[f].vertices[m],
               newFaces[f].vertices[(m % Len(newFaces[f].vertices)) + 1]}

\* the finished mesh has a rewritten hexagon and a walked pentagon
C4_Witness ==
  /\ pc = "done"
  /\ \E f \in 1..Len(newFaces) :
       newFaces[f].type = "hexagon" /\ Len(newFaces[f].vertices) = 6
  /\ \E f \in 1..Len(newFaces) :
       newFaces[f].type = "pentagon" /\ Len(newFaces[f].vertices) = 5

\* C8: for the built board, pentagon discovery consumes every candidate
\* edge exactly once: all 60 retained edges end up processed, each lies in
\* exactly one emitted pentagon, and every merged vertex is a vertex of
\* exactly one pentagon.
C8_PentagonsConsumeAll ==
  pc \in {"edgeObjects", "done"} =>
    /\ Len(pentagonEdges) = 60
    /\ Len(processedEdges) = 60
    /\ Range(processedEdges) = Range(pentagonEdges)
    /\ \A k \in 1..Len(pentagonEdges) :
         Cardinality({f \in 1..Len(newFaces) :
                        /\ newFaces[f].type = "pentagon"
                        /\ \E m \in 1..5 :
                             {newFaces[f].vertices[m], newFaces[f].vertices[(m % 5) + 1]}
                               = {pentagonEdges[k][1], pentagonEdges[k][2]}}) = 1
    /\ \A v \in 0..(Len(mergedVertices) - 1) :
         Cardinality({f \in 1..Len(newFaces) :
                        /\ newFaces[f].type = "pentagon"
                        /\ Includes(newFaces[f].vertices, v)}) = 1

\* pentagon discovery has run over the whole candidate list of the board
C8_Witness ==
  /\ pc = "edgeObjects"
  /\ Len(pentagonEdges) > 0
  /\ pentagonCount > 0
  /\ lastAttempt.startEdge # NoEdge

\* C9: shared-edge classification retains exactly the candidate edges whose
\* endpoints occur together in a number of hexagons different from 2; for
\* the built board 30 edges are excluded and each of the 60 retained edges
\* belongs to exactly one hexagon.
C9_SharedClassification ==
  pc \in {"pentagons", "edgeObjects", "done"} =>
    /\ Range(pentagonEdges)
         = {e \in Range(allEdges) :
              Cardinality({f \in 1..Len(newFaces) :
                             /\ newFaces[f].type = "hexagon"
                             /\ Includes(newFaces[f].vertices, e[1])
                             /\ Includes(newFaces[f].vertices, e[2])}) # 2}
    /\ \A k \in 1..Len(pentagonEdges) :
         Cardinality({f \in 1..Len(newFaces) :
                        /\ newFaces[f].type = "hexagon"
                        /\ Includes(newFaces[f].vertices, pentagonEdges[k][1])
                        /\ Includes(newFaces[f].vertices, pentagonEdges[k][2])}) = 1
    /\ Len(sharedEdges) = 30
    /\ Len(allEdges) - Len(pentagonEdges) = 30
    /\ Len(pentagonEdges) = 60

\* the classification of the board's candidate edges has just finished
C9_Witness ==
  /\ pc = "pentagons"
  /\ cursor = 0
  /\ Len(allEdges) > 0
  /\ Len(sharedEdges) > 0

---------------------------------------------------------------------------
(* Properties of mergeCloseVertices *)

\* C5: for every input point list, no two distinct entries of the merged
\* vertex list are closer than the tolerance.
C5_NoCloseVertices ==
  \A a, b \in 1..Len(mergedVertices) :
    a # b => DistSq(mergedVertices[a], mergedVertices[b])
               >= MergeTolerance * MergeTolerance

\* mergeCloseVertices has returned a list in which some points were merged
\* and some were kept apart
C5_Witness ==
  /\ pc = "merging"
  /\ cursor = Len(newVertices)
  /\ Len(mergedVertices) >= 2
  /\ Len(mergedVertices) < Len(newVertices)

\* C6: mergeCloseVertices is first-match-wins in input order: the index map
\* is defined for every processed index; the value for point i is the
\* smallest merged index within tolerance of point i if there is one when i
\* is processed, otherwise the index at which a copy of point i is appended;
\* the merged list is the subsequence of the input points without an
\* earlier match, in input order.
C6_FirstMatchWins ==
  [][(pc = "merging" /\ cursor' = cursor + 1) =>
       LET p == At(newVertices, cursor)
           near == {j \in 0..(Len(mergedVertices) - 1) :
                      DistSq(p, At(mergedVertices, j)) < MergeTolerance * MergeTolerance}
           fresh == {i \in 0..cursor :
                       \A h \in 0..(i - 1) : At(vertexMap', h) # At(vertexMap', i)}
       IN /\ Len(vertexMap') = cursor + 1
          /\ \A k \in 1..Len(vertexMap) : vertexMap'[k] = vertexMap[k]
          /\ IF near # {}
               THEN /\ At(vertexMap', cursor) \in near
                    /\ \A j \in near : At(vertexMap', cursor) <= j
                    /\ mergedVertices' = mergedVertices
               ELSE /\ At(vertexMap', cursor) = Len(mergedVertices)
                    /\ mergedVertices' = Append(mergedVertices, p)
          /\ Len(mergedVertices') = Cardinality(fresh)
          /\ \A i \in fresh :
               /\ At(mergedVertices', At(vertexMap', i)) = At(newVertices, i)
               /\ At(vertexMap', i) = Cardinality({h \in fresh : h < i})
    ]_vars

\* a point with two merged points within tolerance was mapped, and a point
\* with none was appended
C6_Witness ==
  /\ pc = "merging"
  /\ cursor = Len(newVertices)
  /\ \E i \in 0..(Len(newVertices) - 1) :
       Cardinality({j \in 0..(Len(mergedVertices) - 1) :
                      DistSq(At(newVertices, i), At(mergedVertices, j))
                        < MergeTolerance * MergeTolerance}) >= 2
  /\ \E i \in 1..(Len(newVertices) - 1) : At(vertexMap, i) = Len(mergedVertices) - 1

---------------------------------------------------------------------------
(* Properties of cycle extraction *)

\* C7: cycle extraction emits a pentagon for a start edge if and only if the
\* greedy walk from the start edge's second endpoint returns to its first
\* endpoint after exactly 5 edges (start edge included); a walk that gets
\* stuck, closes earlier, or has not closed after 5 edges emits no face. The
\* emitted face lists the 5 vertices in walk order from the first endpoint.
C7_PentagonEmission ==
  [][(/\ pc = "pentagons"
      /\ cursor' = cursor + 1
      /\ ~Includes(processedEdges, At(pentagonEdges, cursor))) =>
       LET e1 == At(pentagonEdges, cursor)
           Free(v, used) ==
             {k \in 1..Len(pentagonEdges) :
                /\ v \in {pentagonEdges[k][1], pentagonEdges[k][2]}
                /\ pentagonEdges[k] \notin Range(processedEdges)
                /\ pentagonEdges[k] \notin used}
           Stuck(v, used) == Free(v, used) = {}
           Pick(v, used) ==
             pentagonEdges[CHOOSE k \in Free(v, used) : \A m \in Free(v, used) : k <= m]
           Far(edge, v) == CHOOSE w \in {edge[1], edge[2]} : w # v
           w1 == e1[1]
           w2 == e1[2]
           e2 == Pick(w2, {e1})
           w3 == Far(e2, w2)
           e3 == Pick(w3, {e1, e2})
           w4 == Far(e3, w3)
           e4 == Pick(w4, {e1, e2, e3})
           w5 == Far(e4, w4)
           e5 == Pick(w5, {e1, e2, e3, e4})
           w6 == Far(e5, w5)
           closesAtFive ==
             /\ ~Stuck(w2, {e1}) /\ w3 # w1
             /\ ~Stuck(w3, {e1, e2}) /\ w4 # w1
             /\ ~Stuck(w4, {e1, e2, e3}) /\ w5 # w1
             /\ ~Stuck(w5, {e1, e2, e3, e4}) /\ w6 = w1
       IN IF closesAtFive
            THEN /\ newFaces' = Append(newFaces, newFaces'[Len(newFaces')])
                 /\ newFaces'[Len(newFaces')].type = "pentagon"
                 /\ newFaces'[Len(newFaces')].vertices = <<w1, w2, w3, w4, w5>>
                 /\ pentagonCount' = pentagonCount + 1
            ELSE /\ newFaces' = newFaces
                 /\ pentagonCount' = pentagonCount
    ]_vars

\* a walk has closed after exactly 5 edges and its pentagon was emitted
C7_Witness ==
  /\ pc = "pentagons"
  /\ lastAttempt.foundCycle
  /\ Len(lastAttempt.cycle) = 5
  /\ pentagonCount = 1
  /\ Len(newFaces) = 1

---------------------------------------------------------------------------
(* Properties of createPolygonIndices *)

\* C10: fan triangulation of a boundary of length n >= 3 yields exactly n-2
\* triangles, namely (boundary[0], boundary[i], boundary[i+1]) for
\* i = 1..n-2 and nothing else, each referencing only boundary indices.
C10_FanTriangulation ==
  (pc = "polygonDone" /\ Len(polyIn) >= 3) =>
    /\ Len(polyOut) = 3 * (Len(polyIn) - 2)
    /\ \A i \in 1..(Len(polyIn) - 2) :
         /\ polyOut[3 * (i - 1) + 1] = At(polyIn, 0)
         /\ polyOut[3 * (i - 1) + 2] = At(polyIn, i)
         /\ polyOut[3 * (i - 1) + 3] = At(polyIn, i + 1)
    /\ Range(polyOut) \subseteq Range(polyIn)

---------------------------------------------------------------------------
(* Properties of the hexagon generator *)

\* C11: for each triangle (v1, v2, v3) the hexagon generator appends the six
\* truncation points (v1->v2), (v2->v1), (v2->v3), (v3->v2), (v3->v1),
\* (v1->v3) in this order to the raw list and records the six consecutive raw
\* indices as one hexagon: after k triangles there are 6k raw points and k
\* hexagons, and hexagon k owns the raw indices 6k .. 6k+5.
C11_HexagonGenerator ==
  pc \in {"hexagons", "merge", "merging"} =>
    LET OneThird(p, a, b) ==
          \A c \in 1..3 :
            /\ TruncationRatioDen * (p[c] - a[c]) - TruncationRatioNum * (b[c] - a[c])
                 <= TruncationRatioDen \div 2
            /\ TruncationRatioNum * (b[c] - a[c]) - TruncationRatioDen * (p[c] - a[c])
                 <= TruncationRatioDen \div 2
    IN /\ pc = "hexagons" => Len(newFaces) = cursor
       /\ Len(newVertices) = 6 * Len(newFaces)
       /\ \A k \in 0..(Len(newFaces) - 1) :
            /\ At(newFaces, k).type = "hexagon"
            /\ At(newFaces, k).vertices
                 = <<6 * k, 6 * k + 1, 6 * k + 2, 6 * k + 3, 6 * k + 4, 6 * k + 5>>
            /\ LET v1 == At(originalVertices, 3 * k)
                   v2 == At(originalVertices, 3 * k + 1)
                   v3 == At(originalVertices, 3 * k + 2)
               IN /\ OneThird(At(newVertices, 6 * k), v1, v2)
                  /\ OneThird(At(newVertices, 6 * k + 1), v2, v1)
                  /\ OneThird(At(newVertices, 6 * k + 2), v2, v3)
                  /\ OneThird(At(newVertices, 6 * k + 3), v3, v2)
                  /\ OneThird(At(newVertices, 6 * k + 4), v3, v1)
                  /\ OneThird(At(newVertices, 6 * k + 5), v1, v3)

\* the generator has processed all 20 triangles and the merge has not begun
C11_Witness ==
  /\ pc = "merge"
  /\ Len(newFaces) = 20
  /\ Len(newVertices) = 120
  /\ At(newFaces, 19).vertices[1] = 114

---------------------------------------------------------------------------
(* Pentagon geometry of the built board *)

\* C14 as stated: the built board has exactly 12 pentagons and the 5
\* vertices of each pentagon are mutually equidistant: every pair of them,
\* not only consecutive ones, is at the pentagon edge length within 0.02.
C14_PentagonsEquidistant ==
  pc = "done" =>
    /\ Cardinality({f \in 1..Len(newFaces) : newFaces[f].type = "pentagon"}) = 12
    /\ \A f \in 1..Len(newFaces) :
         newFaces[f].type = "pentagon" =>
           \A a, b \in 1..Len(newFaces[f].vertices) :
             a # b =>
               LET d2 == DistSq(At(mergedVertices, newFaces[f].vertices[a]),
                                At(mergedVertices, newFaces[f].vertices[b]))
               IN /\ (CORRECT_EDGE_LENGTH - 2 * EDGE_TOLERANCE)
                       * (CORRECT_EDGE_LENGTH - 2 * EDGE_TOLERANCE) < d2
                  /\ d2 < (CORRECT_EDGE_LENGTH + 2 * EDGE_TOLERANCE)
                            * (CORRECT_EDGE_LENGTH + 2 * EDGE_TOLERANCE)

\* C14 amended: the built board has exactly 12 pentagons, each with 5
\* distinct vertices, and every two cyclically consecutive vertices of a
\* pentagon are at the pentagon edge length within 0.02; two vertices that
\* are not consecutive are farther apart than that.
C14_PentagonsEquilateral ==
  pc = "done" =>
    /\ Cardinality({f \in 1..Len(newFaces) : newFaces[f].type = "pentagon"}) = 12
    /\ \A f \in 1..Len(newFaces) :
         newFaces[f].type = "pentagon" =>
           /\ Len(newFaces[f].vertices) = 5
           /\ \A a, b \in 1..5 :
                a # b =>
                  LET d2 == DistSq(At(mergedVertices, newFaces[f].vertices[a]),
                                   At(mergedVertices, newFaces[f].vertices[b]))
                      consecutive == b = (a % 5) + 1 \/ a = (b % 5) + 1
                  IN IF consecutive
                       THEN /\ (CORRECT_EDGE_LENGTH - 2 * EDGE_TOLERANCE)
                                 * (CORRECT_EDGE_LENGTH - 2 * EDGE_TOLERANCE) < d2
                            /\ d2 < (CORRECT_EDGE_LENGTH + 2 * EDGE_TOLERANCE)
                                      * (CORRECT_EDGE_LENGTH + 2 * EDGE_TOLERANCE)
                       ELSE d2 > (CORRECT_EDGE_LENGTH + 2 * EDGE_TOLERANCE)
                                   * (CORRECT_EDGE_LENGTH + 2 * EDGE_TOLERANCE)

\* the built board has a pentagon, with a side and a diagonal
C14_Witness ==
  /\ pc = "done"
  /\ \E f \in 1..Len(newFaces) :
       /\ newFaces[f].type = "pentagon"
       /\ Len(newFaces[f].vertices) = 5
       /\ IsBond(At(mergedVertices, newFaces[f].vertices[1]),
                 At(mergedVertices, newFaces[f].vertices[2]))
       /\ ~IsBond(At(mergedVertices, newFaces[f].vertices[1]),
                  At(mergedVertices, newFaces[f].vertices[3]))

---------------------------------------------------------------------------
(* The processed-edge set of cycle extraction *)

---------------------------------------------------------------------------
(* Sensitivity of mergeCloseVertices to the displacement of one point *)

\* C18 as stated: when one of two coincident input points is displaced by
\* less than half the tolerance the merged count is unchanged; when it is
\* displaced by more than twice the tolerance, and stays farther than the
\* tolerance from every other point, it becomes a distinct vertex and the
\* merged count grows by exactly one.
C18_ToleranceSensitivity ==
  (pc = "merging" /\ cursor = Len(newVertices) /\ rerun.baseCount >= 0) =>
    LET i == rerun.index
        p == At(rerun.base, i)
        q == At(rerun.moved, i)
        others == (0..(Len(rerun.base) - 1)) \ {i}
        coincident == \E j \in others : At(rerun.base, j) = p
    IN coincident =>
         /\ 4 * DistSq(p, q) < MergeTolerance * MergeTolerance
              => Len(mergedVertices) = rerun.baseCount
         /\ (/\ DistSq(p, q) > 4 * MergeTolerance * MergeTolerance
             /\ \A k \in others :
                  DistSq(q, At(rerun.moved, k)) > MergeTolerance * MergeTolerance)
              => Len(mergedVertices) = rerun.baseCount + 1

\* C18 amended: the same two statements hold when, in addition, every input
\* point that is not at the coincident position is at least the tolerance
\* away from both the original and the displaced position.
C18_IsolatedSensitivity ==
  (pc = "merging" /\ cursor = Len(newVertices) /\ rerun.baseCount >= 0) =>
    LET i == rerun.index
        p == At(rerun.base, i)
        q == At(rerun.moved, i)
        others == (0..(Len(rerun.base) - 1)) \ {i}
        coincident == \E j \in others : At(rerun.base, j) = p
        isolated ==
          \A k \in others :
            At(rerun.base, k) # p =>
              /\ DistSq(At(rerun.base, k), p) >= MergeTolerance * MergeTolerance
              /\ DistSq(At(rerun.base, k), q) >= MergeTolerance * MergeTolerance
    IN (coincident /\ isolated) =>
         /\ 4 * DistSq(p, q) < MergeTolerance * MergeTolerance
              => Len(mergedVertices) = rerun.baseCount
         /\ (/\ DistSq(p, q) > 4 * MergeTolerance * MergeTolerance
             /\ \A k \in others :
                  DistSq(q, At(rerun.moved, k)) > MergeTolerance * MergeTolerance)
              => Len(mergedVertices) = rerun.baseCount + 1

\* both calls have returned for a list of a coincident pair and a third,
\* distant point, one of the pair displaced by more than twice the
\* tolerance: the count grew from 2 to 3
C18_Witness ==
  /\ pc = "merging"
  /\ cursor = Len(newVertices)
  /\ rerun.baseCount = 2
  /\ Len(mergedVertices) = 3
  /\ Len(rerun.base) = 3
  /\ DistSq(At(rerun.base, rerun.index), At(rerun.moved, rerun.index))
       > 4 * MergeTolerance * MergeTolerance
  /\ \A k \in (0..2) \ {rerun.index} :
       \/ At(rerun.base, k) = At(rerun.base, rerun.index)
       \/ /\ DistSq(At(rerun.base, k), At(rerun.base, rerun.index))
               >= MergeTolerance * MergeTolerance
          /\ DistSq(At(rerun.base, k), At(rerun.moved, rerun.index))
               >= MergeTolerance * MergeTolerance

---------------------------------------------------------------------------
(* Properties of the tile assignment *)

\* C20: the tile assignment gives every face exactly one entry of the
\* shuffled 32-entry resource multiset (6 each of wheat, wood, sheep, ore and
\* brick, 2 desert), so exactly 2 faces are desert; every non-desert face
\* gets a dice value and a desert face none; the values are drawn without
\* reuse from 3 copies of each of 2..12 except 7: exactly 30 dice values are
\* assigned, none is 7, and the dice index never runs past the end.
C20_TileAssignment ==
  LET Count(seq, x) == Cardinality({k \in 1..Len(seq) : seq[k] = x})
      Kinds == {"wheat", "wood", "sheep", "ore", "brick"}
      Values == (2..12) \ {7}
      Land == {k \in 1..Len(faceObjects) : faceObjects[k].resourceType # "desert"}
  IN /\ pc # "threw"
     /\ diceIndex <= Len(diceNumbers)
     /\ pc \in {"faceObjects", "ready"} =>
          /\ Len(allResources) = 32
          /\ \A r \in Kinds : Count(allResources, r) = 6
          /\ Count(allResources, "desert") = 2
          /\ Len(diceNumbers) = 30
          /\ \A n \in Values : Count(diceNumbers, n) = 3
          /\ tileCount = Len(faceObjects)
          /\ diceIndex = Cardinality(Land)
          /\ \A k \in 1..Len(faceObjects) :
               /\ faceObjects[k].faceIndex = k - 1
               /\ faceObjects[k].resourceType = allResources[k]
               /\ IF k \in Land
                    THEN faceObjects[k].diceValue
                           = diceNumbers[Cardinality({m \in Land : m <= k})]
                    ELSE faceObjects[k].diceValue = NoDice
     /\ pc = "ready" =>
          /\ Len(faceObjects) = 32
          /\ Len(faceObjects) = Len(newFaces)
          /\ \A r \in Kinds :
               Cardinality({k \in 1..32 : faceObjects[k].resourceType = r}) = 6
          /\ Cardinality({k \in 1..32 : faceObjects[k].resourceType = "desert"}) = 2
          /\ Cardinality({k \in 1..32 : faceObjects[k].diceValue # NoDice}) = 30
          /\ \A k \in 1..32 : faceObjects[k].diceValue # 7
          /\ \A n \in Values :
               Cardinality({k \in 1..32 : faceObjects[k].diceValue = n}) = 3
          /\ diceIndex = 30

\* all 32 faces have their tile, after shuffles that moved entries, with a
\* desert that is not among the last two faces
C20_Witness ==
  /\ pc = "ready"
  /\ Len(faceObjects) = 32
  /\ allResources # AllResources
  /\ diceNumbers # DiceNumbers
  /\ \E k \in 1..30 :
       /\ faceObjects[k].resourceType = "desert"
       /\ faceObjects[k].diceValue = NoDice
       /\ faceObjects[k + 1].diceValue # NoDice

---------------------------------------------------------------------------
(* Properties of the build operations and of the mouse handlers *)

\* C12: buildRoad, buildSettlement and upgradeToCity are each gated by a
\* check of the cost against the resource ledger, an operation whose cost
\* exceeds the ledger builds nothing and deducts nothing, so that no resource
\* count is ever negative.
C12_CostGate ==
  /\ resources.wood >= 0
  /\ resources.brick >= 0
  /\ resources.wheat >= 0
  /\ resources.sheep >= 0
  /\ resources.ore >= 0

\* C13: construction fails fast with an inconsistency error, and so does not
\* complete, when the vertex pool is not 60, the hexagons are not 20, the
\* pentagons are not 12, the derived edges are not 90, or a face's boundary
\* length does not match its kind.
C13_FailFast ==
  pc = "done" =>
    /\ Len(mergedVertices) = 60
    /\ Cardinality({f \in 1..Len(newFaces) : newFaces[f].type = "hexagon"}) = 20
    /\ Cardinality({f \in 1..Len(newFaces) : newFaces[f].type = "pentagon"}) = 12
    /\ Len(edgeObjects) = 90
    /\ \A f \in 1..Len(newFaces) :
         Len(newFaces[f].vertices) = IF newFaces[f].type = "pentagon" THEN 5 ELSE 6

\* C15: pick resolution on click and on hover gives priority face > edge >
\* vertex with a margin of 0.1: a face is picked when a face is hit and every
\* edge or vertex hit is more than 0.1 farther away than the face hit;
\* otherwise an edge is picked when an edge is hit and any vertex hit is more
\* than 0.1 farther away than the edge hit; otherwise a vertex hit is picked.
C15_PickPriority ==
  picked.event # "none" =>
    LET faceHit == pointer.face.index >= 0
        edgeHit == pointer.edge.index >= 0
        vertexHit == pointer.vertex.index >= 0
        faceWins ==
          /\ faceHit
          /\ edgeHit => pointer.edge.distance > pointer.face.distance + PickMargin
          /\ vertexHit => pointer.vertex.distance > pointer.face.distance + PickMargin
        edgeWins ==
          /\ edgeHit
          /\ vertexHit => pointer.vertex.distance > pointer.edge.distance + PickMargin
    IN IF faceWins
         THEN picked.kind = "face" /\ picked.index = pointer.face.index
       ELSE IF edgeWins
         THEN picked.kind = "edge" /\ picked.index = pointer.edge.index
       ELSE IF vertexHit
         THEN picked.kind = "vertex" /\ picked.index = pointer.vertex.index
       ELSE picked.kind = "none"

\* C16: once construction is complete the topology is read-only: no click,
\* mouse move, animation frame, buildRoad, buildSettlement or upgradeToCity
\* changes the merged vertex coordinates, any face's kind or vertex list, or
\* the endpoints (v1, v2) of any edge object.
C16_TopologyReadOnly ==
  [][pc = "ready" =>
       /\ pc' = "ready"
       /\ mergedVertices' = mergedVertices
       /\ Len(newFaces') = Len(newFaces)
       /\ \A f \in 1..Len(newFaces) :
            /\ newFaces'[f].type = newFaces[f].type
            /\ newFaces'[f].vertices = newFaces[f].vertices
       /\ Len(faceObjects') = Len(faceObjects)
       /\ \A f \in 1..Len(faceObjects) :
            /\ faceObjects'[f].faceType = faceObjects[f].faceType
            /\ faceObjects'[f].vertices = faceObjects[f].vertices
       /\ Len(edgeObjects') = Len(edgeObjects)
       /\ \A k \in 1..Len(edgeObjects) :
            /\ edgeObjects'[k].v1 = edgeObjects[k].v1
            /\ edgeObjects'[k].v2 = edgeObjects[k].v2
    ]_vars

\* a road, a settlement and a city were built through the menu, a face was
\* clicked and the mouse was moved over an edge afterwards
C16_Witness ==
  /\ pc = "ready"
  /\ roads # << >>
  /\ settlements # << >>
  /\ cities # << >>
  /\ selected.face >= 0
  /\ \E k \in 1..Len(edgeObjects) : edgeObjects[k].isSelected
  /\ picked.event = "mousemove"
  /\ picked.kind = "edge"
  /\ Len(mergedVertices) = 60

---------------------------------------------------------------------------
(* Properties of the build operations called with any argument *)

\* C21: buildRoad(edgeKey) takes effect only when edgeKey names an existing
\* derived edge (two vertices consecutive on the boundary of a face, in either
\* order) and the roads map has no entry for edgeKey: it then adds exactly one
\* road under edgeKey, decrements wood and brick by 1 each, hides the build
\* menu and leaves wheat, sheep, ore, settlements and cities unchanged; in
\* every other case it changes nothing at all.
C21_BuildRoadFrame ==
  [][\A edgeKey \in CallKeys :
       buildRoad(edgeKey) =>
         LET derived ==
               \E f \in 1..Len(newFaces) :
                 LET vs == newFaces[f].vertices
                 IN \E i \in 1..Len(vs) :
                      {vs[i], vs[(i % Len(vs)) + 1]} = {edgeKey[1], edgeKey[2]}
                      /\ edgeKey[1] # edgeKey[2]
         IN IF derived /\ ~Includes(roads, edgeKey)
              THEN /\ roads' = Append(roads, edgeKey)
                   /\ resources'.wood = resources.wood - 1
                   /\ resources'.brick = resources.brick - 1
                   /\ resources'.wheat = resources.wheat
                   /\ resources'.sheep = resources.sheep
                   /\ resources'.ore = resources.ore
                   /\ menu'.display = "none"
                   /\ settlements' = settlements
                   /\ cities' = cities
              ELSE /\ roads' = roads
                   /\ resources' = resources
                   /\ menu' = menu
                   /\ settlements' = settlements
                   /\ cities' = cities
    ]_vars

\* the menu was shown for an edge, and a road was built under the key of an
\* edge whose reversed key already carried a road: the menu is hidden and
\* only wood and brick were deducted
C21_Witness ==
  /\ pc = "ready"
  /\ Len(roads) = 2
  /\ roads[2] = <<roads[1][2], roads[1][1]>>
  /\ resources.wood = 98
  /\ resources.brick = 98
  /\ resources.wheat = 100
  /\ menu.display = "none"
  /\ menu.call = "buildRoad"

\* C22: a city only ever replaces a settlement. upgradeToCity(v) takes effect
\* only when v has a settlement and no city: it then removes that settlement,
\* adds a city at v and deducts exactly 2 wheat and 3 ore; otherwise it
\* changes nothing. So every step that adds a city at v removes a settlement
\* of v, which only a buildSettlement(v) step had put there, and the visible
\* vertex menu offers the upgrade exactly when its vertex has a settlement and
\* the settlement otherwise.
C22_CityReplacesSettlement ==
  /\ [](menu.display = "block" /\ menu.call # "buildRoad" =>
          IF Includes(settlements, menu.arg)
            THEN menu.call = "upgradeToCity"
            ELSE menu.call = "buildSettlement")
  /\ [][/\ \A v \in 0..MaxCallVertex :
            upgradeToCity(v) =>
              IF Includes(settlements, v) /\ ~Includes(cities, v)
                THEN /\ ~Includes(settlements', v)
                     /\ \A w \in 0..(Len(mergedVertices) - 1) :
                          w # v => (Includes(settlements', w) <=> Includes(settlements, w))
                     /\ cities' = Append(cities, v)
                     /\ resources'.wheat = resources.wheat - 2
                     /\ resources'.ore = resources.ore - 3
                     /\ resources'.wood = resources.wood
                     /\ resources'.brick = resources.brick
                     /\ resources'.sheep = resources.sheep
                     /\ roads' = roads
                ELSE /\ settlements' = settlements
                     /\ cities' = cities
                     /\ resources' = resources
                     /\ roads' = roads
                     /\ menu' = menu
        /\ cities' # cities =>
             \E v \in 0..(Len(mergedVertices) - 1) :
               /\ cities' = Append(cities, v)
               /\ Includes(settlements, v)
               /\ ~Includes(settlements', v)
        /\ \A v \in 0..(Len(mergedVertices) - 1) :
             Includes(settlements', v) /\ ~Includes(settlements, v) => buildSettlement(v)
       ]_vars

\* the vertex menu offered the upgrade of a settlement, and the city replaced
\* the settlement for 2 wheat and 3 ore on top of the settlement's cost
C22_Witness ==
  /\ pc = "ready"
  /\ cities = <<0>>
  /\ settlements = << >>
  /\ resources.wheat = 97
  /\ resources.ore = 97
  /\ resources.wood = 99
  /\ menu.call = "upgradeToCity"
  /\ menu.display = "none"

\* C25: no vertex ever holds a settlement and a city at the same time: after
\* any sequence of buildSettlement and upgradeToCity calls, or of the menu
\* clicks that make them, the keys of the settlements map and of the cities
\* map are disjoint.
C25_SettlementCityDisjoint ==
  \A v \in 0..(Len(mergedVertices) - 1) :
    ~(Includes(settlements, v) /\ Includes(cities, v))

\* C26: at most one road is ever built on a physical edge: whatever keys
\* buildRoad is called with, the roads map never holds a road under "a,b" and
\* another under "b,a", and wood and brick are deducted at most once per
\* edge.
C26_OneRoadPerEdge ==
  /\ \A i, j \in 1..Len(roads) :
       {roads[i][1], roads[i][2]} = {roads[j][1], roads[j][2]} => i = j
  /\ settlements = << >> /\ cities = << >> =>
       resources.wood = 100 - Cardinality({{roads[i][1], roads[i][2]} : i \in 1..Len(roads)})

\* C28: the player's wood and brick counts are equal in every reachable
\* state: both start at 100, buildRoad and buildSettlement take 1 of each,
\* upgradeToCity takes neither.
C28_WoodEqualsBrick ==
  /\ resources.wood = resources.brick
  /\ resources.wood = 100 - Len(roads) - Len(settlements) - Len(cities)

\* a road was built, a settlement was built and upgraded to a city, and a
\* second settlement was built
C28_Witness ==
  /\ pc = "ready"
  /\ Len(roads) >= 1
  /\ Len(cities) >= 1
  /\ Len(settlements) >= 1
  /\ resources.wood < 98

---------------------------------------------------------------------------
(* Properties of the selection *)

\* C23: after every click the objects flagged isSelected are determined by
\* that click alone: a face pick flags exactly the edges with both endpoints
\* in the face's vertex list, which are exactly its boundary edges (6 for a
\* hexagon, 5 for a pentagon), and no vertex; an edge pick flags exactly that
\* edge; a vertex pick flags exactly that vertex; a click that hits nothing
\* leaves nothing flagged. An edge and a vertex are never flagged at the same
\* time.
C23_SelectionFlags ==
  LET flaggedEdges == {k \in 1..Len(edgeObjects) : edgeObjects[k].isSelected}
      flaggedVertices == {k \in 1..Len(vertexObjects) : vertexObjects[k].isSelected}
  IN /\ ~(flaggedEdges # {} /\ flaggedVertices # {})
     /\ picked.event = "click" =>
          IF picked.kind = "face"
            THEN LET face == At(faceObjects, picked.index)
                     vs == face.vertices
                     boundary == {{vs[i], vs[(i % Len(vs)) + 1]} : i \in 1..Len(vs)}
                 IN /\ flaggedVertices = {}
                    /\ flaggedEdges =
                         {k \in 1..Len(edgeObjects) :
                            /\ Includes(vs, edgeObjects[k].v1)
                            /\ Includes(vs, edgeObjects[k].v2)}
                    /\ {{edgeObjects[k].v1, edgeObjects[k].v2} : k \in flaggedEdges} = boundary
                    /\ Cardinality(flaggedEdges) =
                         IF face.faceType = "pentagon" THEN 5 ELSE 6
          ELSE IF picked.kind = "edge"
            THEN flaggedEdges = {picked.index + 1} /\ flaggedVertices = {}
          ELSE IF picked.kind = "vertex"
            THEN flaggedVertices = {picked.index + 1} /\ flaggedEdges = {}
          ELSE flaggedEdges = {} /\ flaggedVertices = {}

\* a vertex was selected and then a pentagon was clicked: its 5 edges are
\* flagged and the vertex is not
C23_Witness ==
  /\ pc = "ready"
  /\ picked.event = "click"
  /\ picked.kind = "face"
  /\ At(faceObjects, picked.index).faceType = "pentagon"
  /\ Cardinality({k \in 1..Len(edgeObjects) : edgeObjects[k].isSelected}) = 5
  /\ menu.call = "buildSettlement"

\* C27: whenever the build menu is visible, the edge or vertex that its build
\* button targets is the selected object (its isSelected flag is true).
C27_MenuTargetSelected ==
  menu.display = "block" =>
    IF menu.call = "buildRoad"
      THEN \E k \in 1..Len(edgeObjects) :
             /\ <<edgeObjects[k].v1, edgeObjects[k].v2>> = menu.arg
             /\ edgeObjects[k].isSelected
      ELSE At(vertexObjects, menu.arg).isSelected

---------------------------------------------------------------------------
(* Properties of shuffle *)

\* C24: shuffle(array) terminates after exactly n iterations for an array of
\* length n and, whatever the random index choices, leaves the array a
\* permutation of its input (same length, each element as many times); it
\* returns the array it was given.
C24_ShufflePermutation ==
  /\ [](pc \in {"shuffle", "shuffleDone"} =>
          LET given == shuffling.given
              array == shuffling.array
          IN /\ Len(array) = Len(given)
             /\ \A item \in ShuffleItems :
                  Cardinality({k \in 1..Len(array) : array[k] = item})
                    = Cardinality({k \in 1..Len(given) : given[k] = item})
             /\ shuffling.iterations + shuffling.currentIndex = Len(given)
             /\ pc = "shuffleDone" =>
                  /\ shuffling.iterations = Len(given)
                  /\ shuffling.result = array)
  /\ <>(pc = "shuffleDone")

\* an array of three different elements was returned in another order after
\* three iterations
C24_Witness ==
  /\ pc = "shuffleDone"
  /\ shuffling.iterations = 3
  /\ Cardinality(Range(shuffling.given)) = 3
  /\ shuffling.result # shuffling.given

---------------------------------------------------------------------------
(* Properties of cycle extraction on arbitrary candidate edge sets *)

\* C29: for an arbitrary candidate edge set over a simple graph, every
\* pentagon that cycle extraction emits has 5 pairwise distinct vertices and
\* 5 pairwise distinct edges, and consecutive vertices of the face
\* (cyclically) are joined by a candidate edge.
C29_PentagonsSimple ==
  \A f \in 1..Len(newFaces) :
    newFaces[f].type = "pentagon" =>
      LET vs == newFaces[f].vertices
          side(i) == {vs[i], vs[(i % 5) + 1]}
      IN /\ Len(vs) = 5
         /\ \A i, j \in 1..5 : vs[i] = vs[j] => i = j
         /\ \A i, j \in 1..5 : side(i) = side(j) => i = j
         /\ \A i \in 1..5 :
              \E k \in 1..Len(pentagonEdges) :
                {pentagonEdges[k][1], pentagonEdges[k][2]} = side(i)

\* a pentagon was emitted from a candidate set that holds a chord of it, the
\* chord tried first at one of the walk's vertices
C29_Witness ==
  /\ pc = "pentagons"
  /\ pentagonCount = 1
  /\ Len(pentagonEdges) = 6
  /\ \E f \in 1..Len(newFaces) :
       /\ newFaces[f].type = "pentagon"
       /\ \E k \in 1..Len(pentagonEdges) :
            /\ ~Includes(processedEdges, pentagonEdges[k])
            /\ Includes(newFaces[f].vertices, pentagonEdges[k][1])
            /\ Includes(newFaces[f].vertices, pentagonEdges[k][2])

\* C30: pentagon discovery terminates for every finite candidate edge set:
\* each candidate edge is tried as a start edge at most once (every iteration
\* of the loop moves to the next candidate edge, never back, so that the
\* number of edges still to try falls by one at every step and the loop ends
\* after at most as many iterations as there are candidate edges), each walk
\* performs at most 4 extensions before it succeeds or is abandoned, and the
\* number of emitted pentagons is at most the number of candidate edges
\* divided by 5.
C30_DiscoveryTerminates ==
  /\ [](pc = "pentagons" =>
          /\ cursor <= Len(pentagonEdges)
          /\ Len(lastAttempt.cycle) <= 5
          /\ 5 * pentagonCount <= Len(pentagonEdges)
          /\ pentagonCount = Cardinality({f \in 1..Len(newFaces) :
                                            newFaces[f].type = "pentagon"}))
  /\ [][pc = "pentagons" =>
          /\ cursor < Len(pentagonEdges)
          /\ cursor' = cursor + 1
          /\ pentagonEdges' = pentagonEdges
          /\ lastAttempt' # lastAttempt =>
               /\ lastAttempt'.startEdge = At(pentagonEdges, cursor)
               /\ Head(lastAttempt'.cycle) = At(pentagonEdges, cursor)
               /\ Len(lastAttempt'.cycle) - 1 <= 4
       ]_vars

\* discovery has ended on 6 candidate edges, one pentagon emitted and the
\* last walk abandoned
C30_Witness ==
  /\ pc = "pentagons"
  /\ cursor = Len(pentagonEdges)
  /\ Len(pentagonEdges) = 6
  /\ pentagonCount = 1
  /\ ~lastAttempt.foundCycle

=============================================================================
